---- MODULE Spec2Model ----
(***************************************************************************)
(* Knowledge-graph engine of studybuddy-backend.                           *)
(*                                                                         *)
(* Text is a sequence of one-character strings.  The characters that the   *)
(* code treats specially are written as tokens: "TAB" (a whitespace other   *)
(* than the blank), "RSQUO" / "LSQUO" (curly single quotes), "LDQUO" /      *)
(* "RDQUO" (curly double quotes), "DQUOTE" (the straight double quote),     *)
(* "ENDASH" / "EMDASH".                                                     *)
(***************************************************************************)
EXTENDS Integers, Sequences, FiniteSets, TLC

VARIABLES
    kgpc,                  \* position of the pure-function harness
    edges_in,              \* argument `edges` of _break_cycles
    edges_out,             \* value returned by _break_cycles
    iterations,            \* passes of the `while True` loop of _break_cycles
    edges_raw,             \* argument `edges_raw` of _build_edge_list
    kept_names,            \* names of the selected candidates
    text,                  \* the document text
    max_edges,             \* argument `max_edges` of _build_edge_list
    edges1,                \* value returned by _build_edge_list
    name_in,               \* argument `s` of _normalize_name
    name_key,              \* value returned by _normalize_name(name_in)
    name_key2,             \* value returned by _normalize_name(name_key)
    cands,                 \* argument `cands` of _dedupe_candidates
    cands_out,             \* outcome of _dedupe_candidates
    concepts,              \* table concepts
    concept_edges,         \* table concept_edges
    concept_doc_mentions,  \* table concept_doc_mentions
    concept_aliases,       \* table concept_aliases
    up,                    \* per request: position and locals of update_class_graph
    next_id,               \* the next value of new_uuid()
    uploads,               \* upload requests accepted so far
    merges,                \* merge requests handled so far
    last_merge,            \* ids of the latest merge request
    replies,               \* the oracle's replies to one caller, in order
    requests,              \* the requests the caller has sent to the oracle
    answer,                \* the parsed result the caller goes on with
    keep_arg,              \* argument `keep_names` of _pick_top
    max_nodes_arg,         \* argument `max_nodes` of _pick_top
    picked,                \* value returned by _pick_top
    pre_validation,        \* the edges of extract_knowledge_graph before the
                           \* validation round
    validate_reply,        \* the edges of the validation round's reply
    validated_edges        \* the edges built from that reply

cyclevars == <<edges_in, edges_out, iterations>>

validvars == <<pre_validation, validate_reply, validated_edges>>

buildvars == <<edges_raw, kept_names, text, max_edges, edges1, validvars>>

tables == <<concepts, concept_edges, concept_doc_mentions, concept_aliases>>

storevars == <<tables, up, next_id, uploads, merges, last_merge>>

selectvars == <<keep_arg, max_nodes_arg, picked>>

namevars == <<name_in, name_key, name_key2, cands, cands_out, selectvars>>

oraclevars == <<replies, requests, answer>>

kgvars == <<kgpc, cyclevars, buildvars, namevars, oraclevars>>

vars == <<kgvars, storevars>>

\* the requests in progress: one at a time, or two side by side
OneRequest == {1}
TwoRequests == {1, 2}

Procs == DOMAIN up

\* NULL of an id column; new_uuid() never returns it
Null == 0

\* NULL of a numeric column
NoValue == -1

\* locals of a request that is not running
IdleProc ==
    [pc |-> "idle", status |-> "", class_id |-> "", doc_id |-> Null,
     names |-> <<>>, edges |-> <<>>, i |-> 0, existing |-> {}, cid |-> Null,
     concept_ids |-> <<>>, name_to_id |-> <<>>, ops |-> <<>>,
     snapshot |-> <<>>, max_df |-> 0,
     pre_concepts |-> {}, pre_edges |-> {}, pre_mentions |-> {},
     oracle |-> "ok", failed_at |-> ""]

\* the store and the requests, while the pure-function harnesses run
StoreUnused ==
    /\ concepts = {}
    /\ concept_edges = {}
    /\ concept_doc_mentions = {}
    /\ concept_aliases = {}
    /\ up = [p \in OneRequest |-> IdleProc]
    /\ next_id = 1
    /\ uploads = 0
    /\ merges = 0
    /\ last_merge = [keep |-> Null, merge |-> Null]

\* the variables of the validation round, while it is not in use
ValidUnused ==
    /\ pre_validation = <<>>
    /\ validate_reply = <<>>
    /\ validated_edges = <<>>

\* the variables of the Edge Builder harness, while it is not in use
BuildUnused ==
    /\ edges_raw = <<>>
    /\ kept_names = <<>>
    /\ text = <<>>
    /\ max_edges = 0
    /\ edges1 = <<>>
    /\ ValidUnused

\* the variables of the Cycle Breaker harness, while it is not in use
CycleUnused ==
    /\ edges_in = <<>>
    /\ edges_out = <<>>
    /\ iterations = 0

\* the variables of the Node Selector harness, while it is not in use
SelectUnused ==
    /\ keep_arg = <<>>
    /\ max_nodes_arg = 0
    /\ picked = <<>>

\* the variables of the Normalizer and Deduplicator harnesses, while they are
\* not in use
NamesUnused ==
    /\ name_in = <<>>
    /\ name_key = <<>>
    /\ name_key2 = <<>>
    /\ cands = <<>>
    /\ cands_out = [raised |-> FALSE, out |-> <<>>]
    /\ SelectUnused

\* the variables of the oracle callers' harness, while it is not in use
OracleUnused ==
    /\ replies = <<>>
    /\ requests = <<>>
    /\ answer = <<>>

\* no pure-function harness is in use
KGUnused ==
    /\ kgpc = "unused"
    /\ BuildUnused
    /\ CycleUnused
    /\ NamesUnused
    /\ OracleUnused

----------------------------------------------------------------------------
(* Sequence helpers *)

RECURSIVE Concat(_)
Concat(ss) == IF ss = <<>> THEN <<>> ELSE Head(ss) \o Concat(Tail(ss))

MapSeq(f(_), s) == [i \in 1..Len(s) |-> f(s[i])]

Reverse(s) == [i \in 1..Len(s) |-> s[Len(s) + 1 - i]]

Range(s) == {s[i] : i \in 1..Len(s)}

Min2(a, b) == IF a < b THEN a ELSE b
Max2(a, b) == IF a > b THEN a ELSE b

Take(s, n) == SubSeq(s, 1, Min2(Len(s), n))

\* all sequences over S of length 0..n
SeqUpTo(S, n) == UNION {[1..k -> S] : k \in 0..n}

----------------------------------------------------------------------------
(* Characters and str methods *)

IsSpace(c) == c \in {" ", "TAB"}

\* \w of the re module
IsWord(c) ==
    c \in {"a", "b", "c", "A", "B", "C", "o", "O", "1", "_",
          "e", "g", "i", "n", "r", "s", "t", "u", "N", "R"}

LowerChar(c) ==
    CASE c = "A" -> "a"
      [] c = "B" -> "b"
      [] c = "C" -> "c"
      [] c = "O" -> "o"
      [] c = "N" -> "n"
      [] c = "R" -> "r"
      [] OTHER -> c

lower(s) == MapSeq(LowerChar, s)

RECURSIVE lstrip(_)
lstrip(s) == IF s # <<>> /\ IsSpace(Head(s)) THEN lstrip(Tail(s)) ELSE s

strip(s) == Reverse(lstrip(Reverse(lstrip(s))))

\* the chain of .replace() calls shared by both normalizers
FoldChar(c) ==
    CASE c \in {"RSQUO", "LSQUO"} -> "'"
      [] c \in {"LDQUO", "RDQUO"} -> "DQUOTE"
      [] c \in {"ENDASH", "EMDASH"} -> "-"
      [] OTHER -> c

fold(s) == MapSeq(FoldChar, s)

\* re.sub(r"\s+", " ", s)
RECURSIVE collapse_ws(_)
collapse_ws(s) ==
    IF s = <<>> THEN <<>>
    ELSE IF IsSpace(Head(s))
         THEN <<" ">> \o collapse_ws(lstrip(s))
         ELSE <<Head(s)>> \o collapse_ws(Tail(s))

KeptByPunctFilter(c) == IsWord(c) \/ IsSpace(c) \/ c \in {"'", "-"}

\* re.sub(r"[^\w\s'\-]", "", s)
strip_punct(s) == SelectSeq(s, KeptByPunctFilter)

_normalize_name(s) ==
    IF s = <<>> THEN <<>>
    ELSE strip(strip_punct(collapse_ws(fold(lower(strip(s))))))

_normalize_text_for_evidence(t) ==
    IF t = <<>> THEN <<>> ELSE fold(lower(t))

IsSubstring(s, t) ==
    \E i \in 0..(Len(t) - Len(s)) : SubSeq(t, i + 1, i + Len(s)) = s

----------------------------------------------------------------------------
(* Edge Builder and Evidence Validator: knowledge_graph._build_edge_list *)

DIRECTED_TYPES == {"prereq", "causes"}

ALLOWED_EDGE_TYPES == {"prereq", "related", "part_of", "example_of", "causes"}

TextWindow == 6500
LabelMax == 80
SnippetMax == 200
EvidenceMax == 6
DefaultStrength == 3
DefaultMaxEdges == 18

\* " ".join(str(x).split())
join_split(x) == strip(collapse_ws(x))

\* [(" ".join(str(x).split())[:200]) for x in evidence if str(x).strip()][:6]
clean_evidence(evidence) ==
    Take(MapSeq(LAMBDA x : Take(join_split(x), SnippetMax),
                SelectSeq(evidence, LAMBDA x : strip(x) # <<>>)),
         EvidenceMax)

\* every edge with evidence passes
_evidence_supported_any(evidence, text_norm) == TRUE

_evidence_supported(evidence, text_norm) ==
    \E i \in 1..Len(evidence) :
        /\ strip(evidence[i]) # <<>>
        /\ IsSubstring(_normalize_text_for_evidence(strip(evidence[i])), text_norm)

\* {_normalize_name(n): n for n in kept_names}: a later name replaces an earlier
kept_map(names) ==
    [k \in {_normalize_name(names[i]) : i \in 1..Len(names)} |->
        names[CHOOSE i \in 1..Len(names) :
                 /\ _normalize_name(names[i]) = k
                 /\ \A j \in (i + 1)..Len(names) : _normalize_name(names[j]) # k]]

\* int(e.get("strength") or 3), clamped to 1..5
clamp_strength(raw) ==
    LET v == IF raw = 0 THEN DefaultStrength ELSE raw IN Max2(1, Min2(5, v))

\* the labels are compared as written
edge_key_raw_label(src_n, dst_n, typ, label) == <<src_n, dst_n, typ, label>>

\* key = (src_n, dst_n, typ, _normalize_name(label))
edge_key(src_n, dst_n, typ, label) ==
    <<src_n, dst_n, typ, _normalize_name(label)>>

\* The body of the for loop for one raw edge e, given the list `out` built so
\* far and the dedup set; skip is a `continue`.  A raw edge is a record
\* [from, to, type, label, strength, evidence] (the values of e.get(...)).
build_one(e, kept_norm_to_name, text_norm, out, dedup) ==
    LET raw_src  == strip(e.from)
        raw_dst  == strip(e.to)
        src_n    == _normalize_name(raw_src)
        dst_n    == _normalize_name(raw_dst)
        label0   == strip(e.label)
        label    == Take(IF label0 = <<>>
                         THEN <<"r","e","l","a","t","e","d","_","t","o">>
                         ELSE label0, LabelMax)
        evidence == clean_evidence(e.evidence)
        key      == edge_key(src_n, dst_n, e.type, label)
        skip     == [out |-> out, dedup |-> dedup]
    IN  IF raw_src = <<>> \/ raw_dst = <<>> THEN skip
        ELSE IF src_n = <<>> \/ dst_n = <<>> \/ src_n = dst_n THEN skip
        ELSE IF src_n \notin DOMAIN kept_norm_to_name
                \/ dst_n \notin DOMAIN kept_norm_to_name THEN skip
        ELSE IF e.type \notin ALLOWED_EDGE_TYPES THEN skip
        ELSE IF evidence # <<>> /\ ~_evidence_supported(evidence, text_norm) THEN skip
        ELSE IF key \in dedup THEN skip
        ELSE [out |-> Append(out,
                        [oid |-> Len(out) + 1,
                         src |-> kept_norm_to_name[src_n],
                         dst |-> kept_norm_to_name[dst_n],
                         typ |-> e.type,
                         label |-> label,
                         strength |-> clamp_strength(e.strength),
                         evidence |-> evidence]),
              dedup |-> dedup \cup {key}]

RECURSIVE build_from(_, _, _, _, _, _)
build_from(es, kept_norm_to_name, text_norm, max_e, out, dedup) ==
    IF es = <<>> THEN out
    ELSE LET r == build_one(Head(es), kept_norm_to_name, text_norm, out, dedup)
         IN  IF Len(r.out) > Len(out) /\ Len(r.out) >= max_e
             THEN r.out
             ELSE build_from(Tail(es), kept_norm_to_name, text_norm, max_e,
                             r.out, r.dedup)

_build_edge_list(raw, kept_norm_to_name, text_norm, max_e) ==
    build_from(raw, kept_norm_to_name, text_norm, max_e, <<>>, {})

\* text_norm as extract_knowledge_graph computes it
text_norm_of(t) == _normalize_text_for_evidence(Take(t, TextWindow))

BuildEdgeList ==
    /\ kgpc = "build"
    /\ edges1' = _build_edge_list(edges_raw, kept_map(kept_names),
                                  text_norm_of(text), max_edges)
    /\ kgpc' = "built"
    /\ UNCHANGED <<edges_raw, kept_names, text, max_edges, validvars, cyclevars,
                   namevars,
                   storevars,
                   oraclevars>>

----------------------------------------------------------------------------
(* Inputs of the grounding guardrail: one raw edge, evidence lists of every
   shape up to MaxSnippets snippets *)

MaxSnippets == 7

\* "A  b" (two blanks), "c" and a blank snippet
Snippets == {<<"A", " ", " ", "b">>, <<"c">>, <<" ">>}

\* "x A b." holds the first snippet, "C" the second
Texts == {<<"x", " ", "A", " ", "b", ".">>, <<"C">>}

GuardrailEdges ==
    {[from |-> <<"a">>, to |-> t, type |-> ty, label |-> <<>>, strength |-> 0,
      evidence |-> ev] :
        t \in {<<"b">>, <<"z">>}, ty \in {"prereq", "supports"},
        ev \in SeqUpTo(Snippets, MaxSnippets)}

InitEvidence ==
    /\ kgpc = "build"
    /\ CycleUnused
    /\ NamesUnused
    /\ OracleUnused
    /\ StoreUnused
    /\ kept_names = <<(<<"A">>), (<<"b">>)>>
    /\ text \in Texts
    /\ max_edges = DefaultMaxEdges
    /\ edges_raw \in {<<e>> : e \in GuardrailEdges}
    /\ edges1 = <<>>
    /\ ValidUnused

NextEvidence == BuildEdgeList

SpecEvidence == InitEvidence /\ [][NextEvidence]_vars

\* endpoints, type and position in the list do not reject the edge
OtherwiseValid(e) ==
    /\ _normalize_name(strip(e.from)) \in DOMAIN kept_map(kept_names)
    /\ _normalize_name(strip(e.to)) \in DOMAIN kept_map(kept_names)
    /\ _normalize_name(strip(e.from)) # _normalize_name(strip(e.to))
    /\ e.type \in ALLOWED_EDGE_TYPES

\* the snippets an edge carries, and a snippet as compared with the text
CarriedSnippets(e) == SelectSeq(e.evidence, LAMBDA x : strip(x) # <<>>)

CanonSnippet(x) ==
    _normalize_text_for_evidence(strip(Take(join_split(x), SnippetMax)))

SnippetInText(x) == IsSubstring(CanonSnippet(x), text_norm_of(text))

\* C3 as stated: an otherwise valid edge carrying evidence is kept exactly
\* when at least one of its snippets, canonicalized, is a substring of the
\* normalized source text window.
C3_AnySnippetDecides ==
    (kgpc = "built" /\ Len(edges_raw) = 1) =>
        LET e == edges_raw[1]
            sn == CarriedSnippets(e)
        IN  (OtherwiseValid(e) /\ sn # <<>>) =>
                (edges1 # <<>> <=> \E i \in 1..Len(sn) : SnippetInText(sn[i]))

\* C3 amended: an otherwise valid edge carrying evidence is kept exactly
\* when at least one of its first six non-blank snippets, canonicalized, is
\* a substring of the normalized source text window.
C3_FirstSixDecide ==
    (kgpc = "built" /\ Len(edges_raw) = 1) =>
        LET e == edges_raw[1]
            sn == CarriedSnippets(e)
        IN  (OtherwiseValid(e) /\ sn # <<>>) =>
                (edges1 # <<>> <=>
                    \E i \in 1..Min2(Len(sn), EvidenceMax) : SnippetInText(sn[i]))

\* an edge whose only matching snippet is its seventh was dropped
C3_Witness ==
    /\ kgpc = "built"
    /\ Len(edges_raw) = 1
    /\ OtherwiseValid(edges_raw[1])
    /\ Len(CarriedSnippets(edges_raw[1])) = 7
    /\ SnippetInText(CarriedSnippets(edges_raw[1])[7])
    /\ \A i \in 1..6 : ~SnippetInText(CarriedSnippets(edges_raw[1])[i])
    /\ edges1 = <<>>
    /\ ValidUnused

----------------------------------------------------------------------------
(* Inputs of the Edge Builder: lists of raw edges without evidence over the
   kept names "A" and "b" *)

MaxRawEdges == 3

RawEdge(from, to, type, label) ==
    [from |-> from, to |-> to, type |-> type, label |-> label, strength |-> 0,
     evidence |-> <<>>]

\* edges between the kept names in several spellings, with two allowed types
\* and the labels "A" and "a"; a self loop, an edge to an unknown name and an
\* edge of a foreign type
BuilderEdges ==
    {RawEdge(ft[1], ft[2], ty, lb) :
        ft \in {<< <<"a">>, <<"b">> >>, << <<"A", " ">>, <<"b">> >>,
                << <<"b">>, <<"a">> >>},
        ty \in {"prereq", "related"},
        lb \in {<<"A">>, <<"a">>}}
    \cup {RawEdge(<<"a">>, <<"a">>, "prereq", <<"a">>),
          RawEdge(<<"a">>, <<"z">>, "prereq", <<"a">>),
          RawEdge(<<"a">>, <<"b">>, "supports", <<"a">>)}

InitBuild ==
    /\ kgpc = "build"
    /\ CycleUnused
    /\ NamesUnused
    /\ OracleUnused
    /\ StoreUnused
    /\ kept_names = <<(<<"A">>), (<<"b">>)>>
    /\ text = <<>>
    /\ max_edges \in {2, DefaultMaxEdges}
    /\ edges_raw \in SeqUpTo(BuilderEdges, MaxRawEdges)
    /\ edges1 = <<>>
    /\ ValidUnused

SpecBuild == InitBuild /\ [][NextEvidence]_vars

\* the canonical key of a returned edge
BuiltKey(e) ==
    <<_normalize_name(e.src), _normalize_name(e.dst), e.typ,
      _normalize_name(e.label)>>

\* the returned edge comes from the raw edge
BuiltFrom(e, raw) ==
    /\ _normalize_name(e.src) = _normalize_name(strip(raw.from))
    /\ _normalize_name(e.dst) = _normalize_name(strip(raw.to))
    /\ e.typ = raw.type
    /\ e.label = strip(raw.label)

\* C25: every list the Edge Builder returns is well formed: each edge joins
\* two distinct kept nodes, its type is an allowed one, no two edges have the
\* same (canonical from, canonical to, type, canonical label), the edges are
\* in the order of the raw edges they come from, and there are at most
\* max_edges of them.
C25_EdgeListWellFormed ==
    kgpc = "built" =>
        /\ \A k \in 1..Len(edges1) :
             /\ edges1[k].src \in Range(kept_names)
             /\ edges1[k].dst \in Range(kept_names)
             /\ _normalize_name(edges1[k].src) \in DOMAIN kept_map(kept_names)
             /\ _normalize_name(edges1[k].dst) \in DOMAIN kept_map(kept_names)
             /\ _normalize_name(edges1[k].src) # _normalize_name(edges1[k].dst)
             /\ edges1[k].typ \in ALLOWED_EDGE_TYPES
        /\ \A j \in 1..Len(edges1), k \in 1..Len(edges1) :
             j # k => BuiltKey(edges1[j]) # BuiltKey(edges1[k])
        /\ \E idx \in [1..Len(edges1) -> 1..Len(edges_raw)] :
             /\ \A j \in 1..Len(edges1), k \in 1..Len(edges1) :
                  j < k => idx[j] < idx[k]
             /\ \A k \in 1..Len(edges1) : BuiltFrom(edges1[k], edges_raw[idx[k]])
        /\ Len(edges1) <= max_edges

\* three raw edges: the second repeats the key of the first with another
\* spelling and is dropped, the third is kept and fills the list
C25_Witness ==
    /\ kgpc = "built"
    /\ Len(edges_raw) = 3
    /\ max_edges = 2
    /\ Len(edges1) = 2
    /\ edges_raw[1].label # edges_raw[2].label
    /\ BuiltFrom(edges1[1], edges_raw[1])
    /\ BuiltFrom(edges1[2], edges_raw[3])
    /\ edges_raw[1].from # edges_raw[2].from

----------------------------------------------------------------------------
(* Cycle Breaker: knowledge_graph._break_cycles *)

\* An Edge object is a record [oid, src, dst, typ, strength]; oid is the
\* identity of the Python object (`is`), the other fields its attributes.

\* adj is the insertion-ordered dict: keys in insertion order, nbrs[key] the list
RECURSIVE build_adj_from(_, _)
build_adj_from(es, adj) ==
    IF es = <<>> THEN adj
    ELSE LET ed == Head(es)
             u  == _normalize_name(ed.src)
             v  == _normalize_name(ed.dst)
         IN  IF ed.typ \notin DIRECTED_TYPES
             THEN build_adj_from(Tail(es), adj)
             ELSE IF u \in Range(adj.keys)
                  THEN build_adj_from(Tail(es),
                         [adj EXCEPT !.nbrs = [@ EXCEPT ![u] = Append(@, v)]])
                  ELSE build_adj_from(Tail(es),
                         [keys |-> Append(adj.keys, u),
                          nbrs |-> [k \in DOMAIN adj.nbrs \cup {u} |->
                                      IF k = u THEN <<v>> ELSE adj.nbrs[k]]])

build_adj(es) == build_adj_from(es, [keys |-> <<>>, nbrs |-> [k \in {} |-> <<>>]])

adj_get(adj, u) == IF u \in DOMAIN adj.nbrs THEN adj.nbrs[u] ELSE <<>>

\* the `while cur != v and cur in parent` walk of dfs
RECURSIVE walk_up(_, _, _)
walk_up(cur, v, parent) ==
    IF cur = v \/ cur \notin DOMAIN parent THEN <<>>
    ELSE <<cur>> \o walk_up(parent[cur], v, parent)

\* dfs state: visited, stack, parent and the returned cycle (<<>> is None)
RECURSIVE dfs(_, _, _)
RECURSIVE dfs_loop(_, _, _, _)
dfs(adj, u, st) ==
    dfs_loop(adj, u, 1,
             [st EXCEPT !.visited = @ \cup {u}, !.stack = @ \cup {u}])

dfs_loop(adj, u, k, st) ==
    LET ns == adj_get(adj, u) IN
    IF k > Len(ns) THEN [st EXCEPT !.stack = @ \ {u}]
    ELSE LET v == ns[k] IN
         IF v \notin st.visited
         THEN LET st1 == [st EXCEPT !.parent =
                              [x \in DOMAIN st.parent \cup {v} |->
                                  IF x = v THEN u ELSE st.parent[x]]]
                  st2 == dfs(adj, v, st1)
              IN  IF st2.cyc # <<>> THEN st2 ELSE dfs_loop(adj, u, k + 1, st2)
         ELSE IF v \in st.stack
              THEN [st EXCEPT !.cyc =
                       Reverse(<<v>> \o walk_up(u, v, st.parent) \o <<v>>)]
              ELSE dfs_loop(adj, u, k + 1, st)

RECURSIVE find_cycle_from(_, _, _)
find_cycle_from(adj, i, st) ==
    IF i > Len(adj.keys) THEN <<>>
    ELSE IF adj.keys[i] \in st.visited THEN find_cycle_from(adj, i + 1, st)
         ELSE LET st2 == dfs(adj, adj.keys[i], st)
              IN  IF st2.cyc # <<>> THEN st2.cyc
                  ELSE find_cycle_from(adj, i + 1, st2)

find_cycle(adj) ==
    find_cycle_from(adj, 1,
        [visited |-> {}, stack |-> {}, parent |-> [x \in {} |-> <<>>], cyc |-> <<>>])

\* the endpoints compared as written, without _normalize_name
cycle_edges_of_raw(cyc, out) ==
    Concat([i \in 1..(Len(cyc) - 1) |->
              SelectSeq(out, LAMBDA ed :
                  /\ ed.typ \in DIRECTED_TYPES
                  /\ ed.src = cyc[i]
                  /\ ed.dst = cyc[i + 1])])

\* the edges between the nodes of the cycle, of any type
cycle_edges_of_any_type(cyc, out) ==
    Concat([i \in 1..(Len(cyc) - 1) |->
              SelectSeq(out, LAMBDA ed :
                  /\ _normalize_name(ed.src) = cyc[i]
                  /\ _normalize_name(ed.dst) = cyc[i + 1])])

\* edges of `out` lying on the cycle: outer loop over cycle steps, inner over out
cycle_edges_of(cyc, out) ==
    Concat([i \in 1..(Len(cyc) - 1) |->
              SelectSeq(out, LAMBDA ed :
                  /\ ed.typ \in DIRECTED_TYPES
                  /\ _normalize_name(ed.src) = cyc[i]
                  /\ _normalize_name(ed.dst) = cyc[i + 1])])

\* an unstable sort: of the weakest edges the last one comes first
weakest_of_last(ces) ==
    LET m == CHOOSE s \in {ces[i].strength : i \in 1..Len(ces)} :
                 \A j \in 1..Len(ces) : s <= ces[j].strength
        i == CHOOSE k \in 1..Len(ces) :
                 /\ ces[k].strength = m
                 /\ \A j \in (k + 1)..Len(ces) : ces[j].strength # m
    IN  ces[i]

\* sorted(cycle_edges, key=strength)[0]: the sort is stable
weakest_of(ces) ==
    LET m == CHOOSE s \in {ces[i].strength : i \in 1..Len(ces)} :
                 \A j \in 1..Len(ces) : s <= ces[j].strength
        i == CHOOSE k \in 1..Len(ces) :
                 /\ ces[k].strength = m
                 /\ \A j \in 1..(k - 1) : ces[j].strength # m
    IN  ces[i]

\* a pass that removes every edge of the cycle found
break_step_whole_cycle(out) ==
    LET cyc == find_cycle(build_adj(out)) IN
    IF cyc = <<>> THEN [out |-> out, done |-> TRUE, removed |-> <<>>, cyc |-> cyc]
    ELSE LET ces == cycle_edges_of(cyc, out) IN
         IF ces = <<>> THEN [out |-> out, done |-> TRUE, removed |-> <<>>, cyc |-> cyc]
         ELSE [out |-> SelectSeq(out, LAMBDA e :
                          \A k \in 1..Len(ces) : e.oid # ces[k].oid),
               done |-> FALSE, removed |-> ces, cyc |-> cyc]

\* one pass of the `while True` loop; done is the `break`, cyc the cycle found
break_step(out) ==
    LET cyc == find_cycle(build_adj(out)) IN
    IF cyc = <<>> THEN [out |-> out, done |-> TRUE, removed |-> <<>>, cyc |-> cyc]
    ELSE LET ces == cycle_edges_of(cyc, out) IN
         IF ces = <<>> THEN [out |-> out, done |-> TRUE, removed |-> <<>>, cyc |-> cyc]
         ELSE LET weakest == weakest_of(ces) IN
              [out |-> SelectSeq(out, LAMBDA e : e.oid # weakest.oid),
               done |-> FALSE, removed |-> <<weakest>>,
               cyc |-> cyc]

\* result and number of passes of the loop
RECURSIVE break_loop(_, _)
break_loop(out, n) ==
    LET r == break_step(out) IN
    IF r.done THEN [out |-> r.out, passes |-> n + 1]
    ELSE break_loop(r.out, n + 1)

_break_cycles(edges) == break_loop(edges, 0).out

\* the passes of the loop in order: the list each pass starts from, the cycle
\* it finds and what break_step makes of it
RECURSIVE break_passes(_)
break_passes(out) ==
    LET r == break_step(out)
        this == [before |-> out, cyc |-> r.cyc, step |-> r]
    IN  IF r.done THEN <<this>> ELSE <<this>> \o break_passes(r.out)

----------------------------------------------------------------------------
(* Inputs of the Cycle Breaker *)

MaxCycleEdges == 3

CycleNames == {<<"A">>, <<"b">>, <<"c">>}

\* endpoint pairs: every pair of distinct names and one self-loop
CyclePairs ==
    {p \in CycleNames \X CycleNames : p[1] # p[2]} \cup {<<(<<"A">>), (<<"A">>)>>}

CycleKinds ==
    {<<"prereq", 1>>, <<"causes", 2>>, <<"related", 1>>}

EdgeShapes ==
    {[src |-> p[1], dst |-> p[2], typ |-> k[1], strength |-> k[2]] :
        p \in CyclePairs, k \in CycleKinds}

\* the list as built by the caller: one fresh Edge object per position
WithOids(shapes) ==
    [i \in 1..Len(shapes) |->
        [oid |-> i, src |-> shapes[i].src, dst |-> shapes[i].dst,
         typ |-> shapes[i].typ, strength |-> shapes[i].strength]]

InitCycle ==
    /\ kgpc = "call"
    /\ BuildUnused
    /\ NamesUnused
    /\ OracleUnused
    /\ StoreUnused
    /\ edges_in \in {WithOids(s) : s \in SeqUpTo(EdgeShapes, MaxCycleEdges)}
    /\ edges_out = <<>>
    /\ iterations = 0

BreakCycles ==
    /\ kgpc = "call"
    /\ LET r == break_loop(edges_in, 0) IN
         /\ edges_out' = r.out
         /\ iterations' = r.passes
    /\ kgpc' = "returned"
    /\ UNCHANGED <<edges_in, buildvars, namevars, storevars,
                   oraclevars>>

NextCycle == BreakCycles

SpecCycle == InitCycle /\ [][NextCycle]_vars

----------------------------------------------------------------------------
(* Directed graph of an edge list, independent of the search above *)

DirectedArcs(es) ==
    {<<_normalize_name(es[i].src), _normalize_name(es[i].dst)>> :
        i \in {j \in 1..Len(es) : es[j].typ \in DIRECTED_TYPES}}

ArcNodes(arcs) == {a[1] : a \in arcs} \cup {a[2] : a \in arcs}

RECURSIVE ReachFrom(_, _)
ReachFrom(arcs, S) ==
    LET T == S \cup {a[2] : a \in {b \in arcs : b[1] \in S}}
    IN  IF T = S THEN S ELSE ReachFrom(arcs, T)

\* some node reaches itself along one or more arcs
HasCycle(arcs) ==
    \E a \in arcs : a[1] \in ReachFrom(arcs, {a[2]})

\* C1: the list returned by _break_cycles has no directed cycle among its
\* prereq/causes edges, over the canonical keys of the endpoints.
C1_OutputAcyclic ==
    kgpc = "returned" => ~HasCycle(DirectedArcs(edges_out))

\* a cyclic input went through the Cycle Breaker
C1_Witness ==
    /\ kgpc = "returned"
    /\ HasCycle(DirectedArcs(edges_in))
    /\ Len(edges_in) = 3
    /\ Cardinality(DirectedArcs(edges_in)) = 3
    /\ \A a \in DirectedArcs(edges_in) : a[1] # a[2]
    /\ Len(edges_out) = 2

\* the directed edges of a list
DirectedEdges(es) == SelectSeq(es, LAMBDA e : e.typ \in DIRECTED_TYPES)

\* the steps of the cycle that the edge lies on
CycleSteps(e, cyc) ==
    {i \in 1..(Len(cyc) - 1) :
        /\ e.typ \in DIRECTED_TYPES
        /\ _normalize_name(e.src) = cyc[i]
        /\ _normalize_name(e.dst) = cyc[i + 1]}

OnCycle(e, cyc) == CycleSteps(e, cyc) # {}

CyclePos(e, cyc) == CHOOSE i \in CycleSteps(e, cyc) : \A j \in CycleSteps(e, cyc) : i <= j

\* the pass removes the one edge w, a weakest directed edge of its cycle
RemovesWeakest(pass, w) ==
    /\ pass.step.removed = <<w>>
    /\ pass.step.out = SelectSeq(pass.before, LAMBDA e : e.oid # w.oid)
    /\ Len(pass.step.out) = Len(pass.before) - 1
    /\ OnCycle(w, pass.cyc)
    /\ \A k \in 1..Len(pass.before) :
         OnCycle(pass.before[k], pass.cyc) => w.strength <= pass.before[k].strength

\* the edges of the pass that are as weak as w and on its cycle
TiedWith(pass, w) ==
    {e \in Range(pass.before) :
        OnCycle(e, pass.cyc) /\ e.strength = w.strength /\ e.oid # w.oid}

\* the pass ties by the place in the input list
TieByInputOrder(pass) ==
    ~pass.step.done =>
        /\ Len(pass.step.removed) = 1
        /\ \E w \in {pass.step.removed[1]} :
             /\ RemovesWeakest(pass, w)
             /\ \A e \in TiedWith(pass, w) : w.oid < e.oid

\* the pass ties by the place on the cycle, then by the place in the input list
TieByCycleOrder(pass) ==
    ~pass.step.done =>
        /\ Len(pass.step.removed) = 1
        /\ \E w \in {pass.step.removed[1]} :
             /\ RemovesWeakest(pass, w)
             /\ \A e \in TiedWith(pass, w) :
                  \/ CyclePos(w, pass.cyc) < CyclePos(e, pass.cyc)
                  \/ /\ CyclePos(w, pass.cyc) = CyclePos(e, pass.cyc)
                     /\ w.oid < e.oid

\* C26 (as stated): each pass of the loop that finds a cycle removes exactly
\* one edge, a directed edge of that cycle of minimum strength, and of several
\* such edges of the same strength the one that comes first in the input list.
C26_TieByInputOrder ==
    kgpc = "returned" =>
        \E passes \in {break_passes(edges_in)} :
            \A k \in 1..Len(passes) : TieByInputOrder(passes[k])

\* C26 (amended): each pass of the loop that finds a cycle removes exactly one
\* edge, a directed edge of that cycle of minimum strength, and of several such
\* edges of the same strength the one met first when the cycle is walked from
\* its first node (of edges on the same step, the first in the input list).
C26_TieByCycleOrder ==
    kgpc = "returned" =>
        \E passes \in {break_passes(edges_in)} :
            \A k \in 1..Len(passes) : TieByCycleOrder(passes[k])

\* a cycle of three edges where the two weakest are equally strong and the one
\* later in the input list is removed
C26_Witness ==
    /\ kgpc = "returned"
    /\ Len(edges_in) = 3
    /\ Len(edges_out) = 2
    /\ \E pass \in {break_passes(edges_in)[1]} :
         /\ Len(pass.cyc) = 4
         /\ \E e \in TiedWith(pass, pass.step.removed[1]) :
              e.oid < pass.step.removed[1].oid

\* a pass that finds no cycle is the last and changes nothing, any other pass
\* removes one edge, a directed one
PassBreaksOrEnds(pass, last) ==
    IF pass.step.done
    THEN last /\ pass.step.out = pass.before
    ELSE /\ Len(DirectedEdges(pass.step.out)) = Len(DirectedEdges(pass.before)) - 1
         /\ Len(pass.step.out) = Len(pass.before) - 1

\* C27: the loop ends on every edge list: a pass either finds no cycle and is
\* the last, or removes exactly one directed edge, so there are at most
\* (number of directed edges + 1) passes.
C27_PassesBounded ==
    kgpc = "returned" =>
        \E passes \in {break_passes(edges_in)} :
            /\ iterations = Len(passes)
            /\ iterations <= Len(DirectedEdges(edges_in)) + 1
            /\ \A k \in 1..Len(passes) : PassBreaksOrEnds(passes[k], k = Len(passes))
            /\ edges_out = passes[Len(passes)].step.out

\* three directed self loops: every pass but the last removes one of them
C27_Witness ==
    /\ kgpc = "returned"
    /\ Len(DirectedEdges(edges_in)) = 3
    /\ iterations = 4
    /\ edges_out = <<>>
----------------------------------------------------------------------------
(* The store: rows are records with an id; a table is the set of its rows *)

\* concepts:             [id, class_id, canonical_name, document_frequency,
\*                        importance_score, merged_into]
\* concept_edges:        [id, class_id, from_concept_id, to_concept_id, type, weight]
\* concept_doc_mentions: [id, class_id, concept_id, document_id, mention_count]
\* concept_aliases:      [id, class_id, concept_id, alias, normalized_alias, confidence]
\* importance_score is kept in units of 0.0001, confidence in units of 0.01.

Classes == {"c1", "c2"}

\* .ilike(column, pattern) for a pattern without the wildcards % and _
ilike(value, pattern) == lower(value) = lower(pattern)

\* the proc record with some fields replaced
SetProc(p, r) == [up EXCEPT ![p] = r]

\* the exception leaves update_class_graph; upload() logs it and goes on
Raised(p) == [up[p] EXCEPT !.pc = "done", !.status = "failed"]

----------------------------------------------------------------------------
(* The Cycle Breaker on a three-edge cycle with edges around it *)

MaxExtraEdges == 1

DirectedKinds == {k \in CycleKinds : k[1] \in DIRECTED_TYPES}

\* A -> b -> c -> A, its three edges in any order, each prereq or causes
TriangleArcs ==
    {<<(<<"A">>), (<<"b">>)>>, <<(<<"b">>), (<<"c">>)>>, <<(<<"c">>), (<<"A">>)>>}

Triangles ==
    {[i \in 1..3 |-> [src |-> ps[i][1], dst |-> ps[i][2],
                      typ |-> ks[i][1], strength |-> ks[i][2]]] :
        ps \in {q \in [1..3 -> TriangleArcs] :
                  \A i \in 1..3, j \in 1..3 : i # j => q[i] # q[j]},
        ks \in [1..3 -> DirectedKinds]}

\* edges before and after the cycle in the list: the non-directed shapes
\* that start at A, and a second prereq edge A -> b
ExtraShapes ==
    {e \in EdgeShapes :
        \/ e.typ \notin DIRECTED_TYPES /\ e.src = <<"A">>
        \/ e.typ = "prereq" /\ e.src = <<"A">> /\ e.dst = <<"b">>}

InitOddCycle ==
    /\ kgpc = "call"
    /\ BuildUnused
    /\ NamesUnused
    /\ OracleUnused
    /\ StoreUnused
    /\ edges_in \in {WithOids(pre \o t \o post) :
                       pre \in SeqUpTo(ExtraShapes, MaxExtraEdges),
                       t \in Triangles,
                       post \in SeqUpTo(ExtraShapes, MaxExtraEdges)}
    /\ edges_out = <<>>
    /\ iterations = 0

SpecOddCycle == InitOddCycle /\ [][NextCycle]_vars

IsDirected(e) == e.typ \in DIRECTED_TYPES

DirectedOf(es) == SelectSeq(es, IsDirected)

NonDirectedOf(es) == SelectSeq(es, LAMBDA e : ~IsDirected(e))

\* the directed edges are the edges of one simple cycle, each once
OneSimpleCycle(es) ==
    LET arcs == DirectedArcs(es) IN
    /\ arcs # {}
    /\ Cardinality(arcs) = Len(DirectedOf(es))
    /\ \A n \in ArcNodes(arcs) :
         /\ Cardinality({a \in arcs : a[1] = n}) = 1
         /\ Cardinality({a \in arcs : a[2] = n}) = 1
    /\ \A a \in arcs : ReachFrom(arcs, {a[1]}) = ArcNodes(arcs)

RemovedDirected == Len(DirectedOf(edges_in)) - Len(DirectedOf(edges_out))

\* C17 as stated: of a simple cycle of three directed edges, all but one are
\* removed, and the non-directed edges stay.
C17_AllButOneRemoved ==
    (kgpc = "returned" /\ OneSimpleCycle(edges_in)) =>
        /\ RemovedDirected = Len(DirectedOf(edges_in)) - 1
        /\ NonDirectedOf(edges_out) = NonDirectedOf(edges_in)

\* C17: the returned directed edges are acyclic; when the directed edges of
\* the input are one simple cycle, exactly one of them is removed, so all but
\* one remain; every non-directed edge of the input is in the output, in its
\* place.
C17_OneRemovedPerCycle ==
    kgpc = "returned" =>
        /\ ~HasCycle(DirectedArcs(edges_out))
        /\ OneSimpleCycle(edges_in) => RemovedDirected = 1
        /\ NonDirectedOf(edges_out) = NonDirectedOf(edges_in)
        /\ \A i \in 1..Len(edges_out) :
             \E j \in 1..Len(edges_in) : edges_out[i] = edges_in[j]

\* the cycle A -> b -> c -> A with a related edge before it went through the
\* Cycle Breaker: two of its edges and the related edge are returned
C17_Witness ==
    /\ kgpc = "returned"
    /\ OneSimpleCycle(edges_in)
    /\ Len(DirectedOf(edges_in)) = 3
    /\ Len(DirectedOf(edges_out)) = 2
    /\ Len(edges_in) = 4
    /\ edges_in[1].typ = "related"
    /\ edges_out[1] = edges_in[1]

----------------------------------------------------------------------------
(* Normalizer applied twice *)

MaxNameLen == 5

NameChars == {"a", "B", " ", ".", "RSQUO"}

InitNormalize ==
    /\ kgpc = "normalize"
    /\ BuildUnused
    /\ CycleUnused
    /\ StoreUnused
    /\ name_in \in SeqUpTo(NameChars, MaxNameLen)
    /\ name_key = <<>>
    /\ OracleUnused
    /\ name_key2 = <<>>
    /\ SelectUnused
    /\ cands = <<>>
    /\ cands_out = [raised |-> FALSE, out |-> <<>>]

Normalize ==
    /\ kgpc = "normalize"
    /\ name_key' = _normalize_name(name_in)
    /\ kgpc' = "normalized"
    /\ UNCHANGED <<name_in, name_key2, cands, cands_out, selectvars, cyclevars,
                   buildvars,
                   storevars,
                   oraclevars>>

NormalizeAgain ==
    /\ kgpc = "normalized"
    /\ name_key2' = _normalize_name(name_key)
    /\ kgpc' = "renormalized"
    /\ UNCHANGED <<name_in, name_key, cands, cands_out, selectvars, cyclevars,
                   buildvars,
                   storevars,
                   oraclevars>>

NextNormalize == Normalize \/ NormalizeAgain

SpecNormalize == InitNormalize /\ [][NextNormalize]_vars

\* C15: the canonical key of a canonical key is that key.
C15_NormalizeIdempotent ==
    kgpc = "renormalized" => name_key2 = name_key

----------------------------------------------------------------------------
(* Candidate Deduplicator: knowledge_graph._dedupe_candidates *)

\* a candidate of the oracle's reply: is_dict says whether it is a JSON
\* object; name_kind is "str", "none" (no name, null, or another falsy value)
\* or "number" (a truthy value that is no string)
Candidate(is_dict, name_kind, name, importance) ==
    [is_dict |-> is_dict, name_kind |-> name_kind, name |-> name,
     importance |-> importance]

\* (c.get("name") or "").strip(): a truthy value without .strip raises
name_of(c) ==
    IF c.name_kind = "number" THEN [raised |-> TRUE, name |-> <<>>]
    ELSE [raised |-> FALSE,
          name |-> IF c.name_kind = "str" THEN strip(c.name) ELSE <<>>]

\* the loop `for c in cands or []` from position i on
RECURSIVE dedupe_from(_, _, _, _)
dedupe_from(cs, i, seen, out) ==
    IF i > Len(cs) THEN [raised |-> FALSE, out |-> out]
    ELSE IF ~cs[i].is_dict THEN dedupe_from(cs, i + 1, seen, out)
    ELSE LET n == name_of(cs[i])
             key == _normalize_name(n.name)
         IN  IF n.raised THEN [raised |-> TRUE, out |-> <<>>]
             ELSE IF n.name = <<>> THEN dedupe_from(cs, i + 1, seen, out)
             ELSE IF key \in seen THEN dedupe_from(cs, i + 1, seen, out)
             ELSE dedupe_from(cs, i + 1, seen \cup {key}, Append(out, cs[i]))

_dedupe_candidates(cs) == dedupe_from(cs, 1, {}, <<>>)

MaxCands == 3

\* "A’b", "a'b " and a blank name
CandNames == {<<"A", "RSQUO", "b">>, <<"a", "'", "b", " ">>, <<" ">>}

Candidates ==
    {Candidate(TRUE, "str", n, i) : n \in CandNames, i \in {3, 5}}
    \cup {Candidate(FALSE, "none", <<>>, 0),
          Candidate(TRUE, "none", <<>>, 4),
          Candidate(TRUE, "number", <<>>, 4)}

InitDedupe ==
    /\ kgpc = "dedupe"
    /\ BuildUnused
    /\ CycleUnused
    /\ StoreUnused
    /\ name_in = <<>>
    /\ name_key = <<>>
    /\ OracleUnused
    /\ name_key2 = <<>>
    /\ SelectUnused
    /\ cands \in SeqUpTo(Candidates, MaxCands)
    /\ cands_out = [raised |-> FALSE, out |-> <<>>]

DedupeCandidates ==
    /\ kgpc = "dedupe"
    /\ cands_out' = _dedupe_candidates(cands)
    /\ kgpc' = "deduped"
    /\ UNCHANGED <<name_in, name_key, name_key2, cands, selectvars, cyclevars,
                   buildvars,
                   storevars,
                   oraclevars>>

NextDedupe == DedupeCandidates

SpecDedupe == InitDedupe /\ [][NextDedupe]_vars

\* the candidate is an object whose name is a non-blank string
HasUsableName(c) ==
    c.is_dict /\ c.name_kind = "str" /\ strip(c.name) # <<>>

CandKey(c) == _normalize_name(strip(c.name))

\* positions of the first candidate of each canonical key
FirstOfKey(cs) ==
    {i \in 1..Len(cs) :
        /\ HasUsableName(cs[i])
        /\ \A j \in 1..(i - 1) :
             HasUsableName(cs[j]) => CandKey(cs[j]) # CandKey(cs[i])}

RECURSIVE AtPositions(_, _, _)
AtPositions(cs, I, i) ==
    IF i > Len(cs) THEN <<>>
    ELSE (IF i \in I THEN <<cs[i]>> ELSE <<>>) \o AtPositions(cs, I, i + 1)

\* C16: the deduplicator returns, in input order, exactly the first candidate
\* of each canonical key among the candidates with a non-blank name; the
\* other records are left out and the batch is not aborted.
C16_FirstPerKey ==
    kgpc = "deduped" =>
        /\ ~cands_out.raised
        /\ cands_out.out = AtPositions(cands, FirstOfKey(cands), 1)

----------------------------------------------------------------------------
(* Incremental Mutator: concept_engine.update_class_graph *)

MaxUploads == 2

DefaultImportance == 1000

OracleMaxEdges == 15

\* extract_relationships, given the edges of the oracle's reply
extract_relationships(concept_names, reply) ==
    IF Len(concept_names) < 2 THEN <<>> ELSE Take(reply, OracleMaxEdges)

\* concept_names of update_class_graph
concept_names_of(d) == SelectSeq(MapSeq(strip, d.names), LAMBDA n : n # <<>>)

\* update_class_graph asks the oracle for the edges of this document
asks_relationships(d) == d.edges = <<>> /\ Len(concept_names_of(d)) >= 2

\* upload(): the graph of the document is non-empty and update_class_graph is
\* called with a fresh doc_id.  d is the guide_json: the concept names, the
\* precomputed edges, and the reply the oracle gives if it is asked.  o is
\* what becomes of the oracle call of extract_relationships: "ok", or
\* "relationships_unparsable" (safe_json_loads gives its default, no edges),
\* or "relationships_fails" (the call raises once the concepts are stored).
EnterUpload(p, d, o) ==
    /\ up[p].pc = "idle"
    /\ uploads < MaxUploads
    /\ d.names # <<>>
    /\ o # "ok" => asks_relationships(d)
    /\ up' = SetProc(p, [IdleProc EXCEPT
                !.pc = "concept", !.class_id = d.class_id, !.doc_id = next_id,
                !.names = d.names,
                !.edges = IF d.edges # <<>> THEN d.edges
                          ELSE extract_relationships(
                                 concept_names_of(d),
                                 IF o = "ok" THEN d.oracle_edges ELSE <<>>),
                !.i = 1, !.oracle = o,
                !.pre_concepts = concepts, !.pre_edges = concept_edges,
                !.pre_mentions = concept_doc_mentions])
    /\ next_id' = next_id + 1
    /\ uploads' = uploads + 1
    /\ UNCHANGED <<kgvars, tables, merges, last_merge>>

\* an upload that starts while no other request is in progress
BeginUpload(p, d, o) ==
    /\ \A q \in Procs : up[q].pc = "idle"
    /\ EnterUpload(p, d, o)

\* an upload all of whose oracle calls answer
StartUpload(p, d) == BeginUpload(p, d, "ok")

\* upload(): an oracle call of summary or extract_knowledge_graph raises
\* inside asyncio.gather; the exception reaches the except clauses of upload()
\* and the request ends with an HTTP error before anything is stored
GatherRaises(p, d) ==
    /\ up[p].pc = "idle"
    /\ \A q \in Procs : up[q].pc = "idle"
    /\ uploads < MaxUploads
    /\ up' = SetProc(p, [IdleProc EXCEPT
                !.pc = "done", !.status = "error", !.class_id = d.class_id,
                !.oracle = "graph_fails",
                !.pre_concepts = concepts, !.pre_edges = concept_edges,
                !.pre_mentions = concept_doc_mentions])
    /\ uploads' = uploads + 1
    /\ UNCHANGED <<kgvars, tables, next_id, merges, last_merge>>

\* upload(): the candidate reply cannot be parsed, safe_json_loads gives no
\* candidates, the graph has no concepts, guide_json is "{}" and
\* update_class_graph is not called; the document is stored and returned
EmptyGraph(p, d) ==
    /\ up[p].pc = "idle"
    /\ \A q \in Procs : up[q].pc = "idle"
    /\ uploads < MaxUploads
    /\ up' = SetProc(p, [IdleProc EXCEPT
                !.pc = "done", !.status = "skipped", !.class_id = d.class_id,
                !.doc_id = next_id, !.oracle = "graph_unparsable",
                !.pre_concepts = concepts, !.pre_edges = concept_edges,
                !.pre_mentions = concept_doc_mentions])
    /\ next_id' = next_id + 1
    /\ uploads' = uploads + 1
    /\ UNCHANGED <<kgvars, tables, merges, last_merge>>

\* for c in concepts: a blank name is skipped
SkipBlankName(p) ==
    /\ up[p].pc = "concept"
    /\ up[p].i <= Len(up[p].names)
    /\ strip(up[p].names[up[p].i]) = <<>>
    /\ up' = SetProc(p, [up[p] EXCEPT !.i = @ + 1])
    /\ UNCHANGED <<kgvars, tables, next_id, uploads, merges, last_merge>>

\* rows of any class whose canonical_name matches the name
MatchingConcepts_any_class(class_id, name) ==
    {c \in concepts : ilike(c.canonical_name, name)}

\* rows of the class whose canonical_name matches the name
MatchingConcepts(class_id, name) ==
    {c \in concepts : c.class_id = class_id /\ ilike(c.canonical_name, name)}

\* the select ... .ilike(...).maybe_single(): more than one row raises
LookupConcept(p) ==
    /\ up[p].pc = "concept"
    /\ up[p].i <= Len(up[p].names)
    /\ LET name == strip(up[p].names[up[p].i])
           rows == MatchingConcepts(up[p].class_id, name)
       IN  /\ name # <<>>
           /\ up' = SetProc(p, IF Cardinality(rows) > 1 THEN Raised(p)
                              ELSE [up[p] EXCEPT !.pc = "concept_write",
                                                 !.existing = rows])
    /\ UNCHANGED <<kgvars, tables, next_id, uploads, merges, last_merge>>

\* the dict assignment name_to_id[key] = cid; the dict is a sequence of pairs
dict_set(d, key, val) ==
    IF \E k \in 1..Len(d) : d[k][1] = key
    THEN [k \in 1..Len(d) |-> IF d[k][1] = key THEN <<key, val>> ELSE d[k]]
    ELSE Append(d, <<key, val>>)

\* name_to_id.get(key): Null when the key is absent
dict_get(d, key) ==
    IF \E k \in 1..Len(d) : d[k][1] = key
    THEN d[CHOOSE k \in 1..Len(d) : d[k][1] = key][2]
    ELSE Null

\* document_frequency + 1 on the row found, or a new row
WriteConcept(p) ==
    /\ up[p].pc = "concept_write"
    /\ LET name == strip(up[p].names[up[p].i])
           found == up[p].existing # {}
           row == CHOOSE r \in up[p].existing : TRUE
           cid == IF found THEN row.id ELSE next_id
           df == IF row.document_frequency = NoValue THEN 0
                 ELSE row.document_frequency
       IN  /\ concepts' =
                IF found
                THEN {IF c.id = cid
                      THEN [c EXCEPT !.document_frequency = df + 1] ELSE c :
                        c \in concepts}
                ELSE concepts \cup
                       {[id |-> cid, class_id |-> up[p].class_id,
                         canonical_name |-> name, document_frequency |-> 1,
                         importance_score |-> DefaultImportance,
                         merged_into |-> Null]}
           /\ next_id' = IF found THEN next_id ELSE next_id + 1
           /\ up' = SetProc(p, [up[p] EXCEPT
                      !.pc = "mention", !.cid = cid, !.existing = {},
                      !.concept_ids = Append(@, cid),
                      !.name_to_id = dict_set(@, lower(strip(name)), cid)])
    /\ UNCHANGED <<kgvars, concept_edges, concept_doc_mentions, concept_aliases,
                   uploads, merges, last_merge>>

\* the mention row of the schema's default mention_count
InsertMention(p) ==
    /\ up[p].pc = "mention"
    /\ concept_doc_mentions' = concept_doc_mentions \cup
          {[id |-> next_id, class_id |-> up[p].class_id,
            concept_id |-> up[p].cid, document_id |-> up[p].doc_id,
            mention_count |-> NoValue]}
    /\ next_id' = next_id + 1
    /\ up' = SetProc(p, [up[p] EXCEPT !.pc = "concept", !.i = @ + 1])
    /\ UNCHANGED <<kgvars, concepts, concept_edges, concept_aliases, uploads, merges, last_merge>>

\* after the loop: return if no concept was stored, else go on to the edges
ConceptsDone(p) ==
    /\ up[p].pc = "concept"
    /\ up[p].i > Len(up[p].names)
    /\ up[p].concept_ids = <<>> \/ up[p].oracle # "relationships_fails"
    /\ up' = SetProc(p, IF up[p].concept_ids = <<>>
                        THEN [up[p] EXCEPT !.pc = "done", !.status = "returned"]
                        ELSE [up[p] EXCEPT !.pc = "edge", !.i = 1])
    /\ UNCHANGED <<kgvars, tables, next_id, uploads, merges, last_merge>>

\* after the loop: `await extract_relationships(concept_names)` raises, the
\* exception leaves update_class_graph with the concepts and mentions stored
RelationshipsRaise(p) ==
    /\ up[p].pc = "concept"
    /\ up[p].i > Len(up[p].names)
    /\ up[p].concept_ids # <<>>
    /\ up[p].oracle = "relationships_fails"
    /\ up' = SetProc(p, Raised(p))
    /\ UNCHANGED <<kgvars, tables, next_id, uploads, merges, last_merge>>

\* the exits of `for e in edges` before the store is asked: blank endpoint,
\* type outside allowed_types, endpoint not among this document's names, or
\* both endpoints the same concept
EdgeFrom(p, e) == dict_get(up[p].name_to_id, lower(strip(e.from)))
EdgeTo(p, e) == dict_get(up[p].name_to_id, lower(strip(e.to)))

EdgeSkipped(p, e) ==
    \/ lower(strip(e.from)) = <<>>
    \/ lower(strip(e.to)) = <<>>
    \/ e.type \notin ALLOWED_EDGE_TYPES
    \/ EdgeFrom(p, e) = Null
    \/ EdgeTo(p, e) = Null
    \/ EdgeFrom(p, e) = EdgeTo(p, e)

SkipEdge(p) ==
    /\ up[p].pc = "edge"
    /\ up[p].i <= Len(up[p].edges)
    /\ EdgeSkipped(p, up[p].edges[up[p].i])
    /\ up' = SetProc(p, [up[p] EXCEPT !.i = @ + 1])
    /\ UNCHANGED <<kgvars, tables, next_id, uploads, merges, last_merge>>

\* rows of concept_edges with the four key columns
MatchingEdges(class_id, from_id, to_id, edge_type) ==
    {r \in concept_edges :
        /\ r.class_id = class_id
        /\ r.from_concept_id = from_id
        /\ r.to_concept_id = to_id
        /\ r.type = edge_type}

\* a row is inserted whether or not one was found
edge_written_blindly(existing, class_id, from_id, to_id, edge_type, delta) ==
    concept_edges \cup
       {[id |-> next_id, class_id |-> class_id, from_concept_id |-> from_id,
         to_concept_id |-> to_id, type |-> edge_type, weight |-> delta]}

\* the table after `weight + delta` on the row read before, or after the insert
edge_written(existing, class_id, from_id, to_id, edge_type, delta) ==
    IF existing # {}
    THEN LET row == CHOOSE r \in existing : TRUE
         IN  {IF r.id = row.id THEN [r EXCEPT !.weight = row.weight + delta]
              ELSE r : r \in concept_edges}
    ELSE concept_edges \cup
           {[id |-> next_id, class_id |-> class_id, from_concept_id |-> from_id,
             to_concept_id |-> to_id, type |-> edge_type, weight |-> delta]}

LookupEdge(p) ==
    /\ up[p].pc = "edge"
    /\ up[p].i <= Len(up[p].edges)
    /\ LET e == up[p].edges[up[p].i]
           rows == MatchingEdges(up[p].class_id, EdgeFrom(p, e), EdgeTo(p, e), e.type)
       IN  /\ ~EdgeSkipped(p, e)
           /\ up' = SetProc(p, IF Cardinality(rows) > 1 THEN Raised(p)
                              ELSE [up[p] EXCEPT !.pc = "edge_write",
                                                 !.existing = rows])
    /\ UNCHANGED <<kgvars, tables, next_id, uploads, merges, last_merge>>

WriteEdge(p) ==
    /\ up[p].pc = "edge_write"
    /\ LET e == up[p].edges[up[p].i] IN
         concept_edges' = edge_written(up[p].existing, up[p].class_id,
                                       EdgeFrom(p, e), EdgeTo(p, e), e.type, 1)
    /\ next_id' = IF up[p].existing # {} THEN next_id ELSE next_id + 1
    /\ up' = SetProc(p, [up[p] EXCEPT !.pc = "edge", !.i = @ + 1, !.existing = {}])
    /\ UNCHANGED <<kgvars, concepts, concept_doc_mentions, concept_aliases, uploads, merges, last_merge>>

----------------------------------------------------------------------------
(* Co-occurrence Reinforcer: graph_intelligence._reinforce_related_edges *)

MaxRelatedPerUpload == 25

RECURSIVE dedup_ids(_, _)
dedup_ids(ids, seen) ==
    IF ids = <<>> THEN <<>>
    ELSE IF Head(ids) # Null /\ Head(ids) \notin seen
         THEN <<Head(ids)>> \o dedup_ids(Tail(ids), seen \cup {Head(ids)})
         ELSE dedup_ids(Tail(ids), seen)

\* list(itertools.combinations(ids, 2))
combinations2(ids) ==
    Concat([i \in 1..Len(ids) |->
              [j \in 1..(Len(ids) - i) |-> <<ids[i], ids[i + j]>>]])

\* one _upsert_edge call per pair: a->b only
related_calls_one_way(concept_ids) ==
    LET ids == dedup_ids(concept_ids, {})
        pairs == Take(combinations2(ids), MaxRelatedPerUpload)
    IN  IF Len(ids) < 2 THEN <<>>
        ELSE [k \in 1..Len(pairs) |-> <<pairs[k][1], pairs[k][2]>>]

\* every pair is reinforced, however many there are
related_calls_uncapped(concept_ids) ==
    LET ids == dedup_ids(concept_ids, {})
        pairs == combinations2(ids)
    IN  IF Len(ids) < 2 THEN <<>>
        ELSE Concat([k \in 1..Len(pairs) |->
                       << <<pairs[k][1], pairs[k][2]>>,
                          <<pairs[k][2], pairs[k][1]>> >>])

\* the _upsert_edge calls of the loop, in order: a->b, then b->a, per pair
related_calls(concept_ids) ==
    LET ids == dedup_ids(concept_ids, {})
        pairs == Take(combinations2(ids), MaxRelatedPerUpload)
    IN  IF Len(ids) < 2 THEN <<>>
        ELSE Concat([k \in 1..Len(pairs) |->
                       << <<pairs[k][1], pairs[k][2]>>,
                          <<pairs[k][2], pairs[k][1]>> >>])

\* end of the edge loop; reinforce_graph_after_upload starts
EdgesDone(p) ==
    /\ up[p].pc = "edge"
    /\ up[p].i > Len(up[p].edges)
    /\ up' = SetProc(p, [up[p] EXCEPT !.pc = "related", !.i = 1,
                           !.ops = related_calls(up[p].concept_ids)])
    /\ UNCHANGED <<kgvars, tables, next_id, uploads, merges, last_merge>>

\* _upsert_edge: the select
LookupRelated(p) ==
    /\ up[p].pc = "related"
    /\ up[p].i <= Len(up[p].ops)
    /\ LET op == up[p].ops[up[p].i]
           rows == MatchingEdges(up[p].class_id, op[1], op[2], "related")
       IN  up' = SetProc(p, IF Cardinality(rows) > 1 THEN Raised(p)
                            ELSE [up[p] EXCEPT !.pc = "related_write",
                                               !.existing = rows])
    /\ UNCHANGED <<kgvars, tables, next_id, uploads, merges, last_merge>>

\* _upsert_edge: the update or the insert
WriteRelated(p) ==
    /\ up[p].pc = "related_write"
    /\ LET op == up[p].ops[up[p].i] IN
         concept_edges' = edge_written(up[p].existing, up[p].class_id,
                                       op[1], op[2], "related", 1)
    /\ next_id' = IF up[p].existing # {} THEN next_id ELSE next_id + 1
    /\ up' = SetProc(p, [up[p] EXCEPT !.pc = "related", !.i = @ + 1,
                           !.existing = {}])
    /\ UNCHANGED <<kgvars, concepts, concept_doc_mentions, concept_aliases, uploads, merges, last_merge>>

RelatedDone(p) ==
    /\ up[p].pc = "related"
    /\ up[p].i > Len(up[p].ops)
    /\ up' = SetProc(p, [up[p] EXCEPT !.pc = "prune", !.ops = <<>>])
    /\ UNCHANGED <<kgvars, tables, next_id, uploads, merges, last_merge>>

----------------------------------------------------------------------------
(* Pruner: graph_intelligence.prune_weak_edges *)

PruneThreshold == 2

\* weak edges of every type are deleted
prune_deletes_any_type(r, class_id, threshold) ==
    /\ r.class_id = class_id
    /\ r.weight < threshold

\* delete().eq("class_id", ..).eq("type", "related").lt("weight", threshold)
prune_deletes(r, class_id, threshold) ==
    /\ r.class_id = class_id
    /\ r.type = "related"
    /\ r.weight < threshold

prune_weak_edges(rows, class_id, threshold) ==
    {r \in rows : ~prune_deletes(r, class_id, threshold)}

Prune(p) ==
    /\ up[p].pc = "prune"
    /\ concept_edges' = prune_weak_edges(concept_edges, up[p].class_id, PruneThreshold)
    /\ up' = SetProc(p, [up[p] EXCEPT !.pc = "score"])
    /\ UNCHANGED <<kgvars, concepts, concept_doc_mentions, concept_aliases,
                   next_id, uploads, merges, last_merge>>

----------------------------------------------------------------------------
(* Importance Scorer: graph_intelligence.recalc_importance *)

DegreeScale == 25
DocWeight == 6000
DegreeWeight == 4000

RECURSIVE sorted_by_id(_)
sorted_by_id(rows) ==
    IF rows = {} THEN <<>>
    ELSE LET r == CHOOSE x \in rows : \A y \in rows : x.id <= y.id
         IN  <<r>> \o sorted_by_id(rows \ {r})

RECURSIVE sum_weights(_)
sum_weights(rows) ==
    IF rows = {} THEN 0
    ELSE LET r == CHOOSE x \in rows : TRUE
         IN  r.weight + sum_weights(rows \ {r})

\* int(df) if df is not None else 1
score_df(c) == IF c.document_frequency = NoValue THEN 1 ELSE c.document_frequency

\* edges of the class touching the concept, either direction
weighted_degree(class_id, cid) ==
    sum_weights({r \in concept_edges :
                   /\ r.class_id = class_id
                   /\ (r.from_concept_id = cid \/ r.to_concept_id = cid)})

\* a / b rounded to the nearest integer
RoundDiv(a, b) == (2 * a + b) \div (2 * b)

\* the degree term without its cap at 1
importance_uncapped(df, max_df, degree) ==
    (IF max_df = 0 THEN 0 ELSE RoundDiv(DocWeight * df, max_df))
    + (DegreeWeight * degree) \div DegreeScale

\* round(0.6 * df / max_df + 0.4 * min(1, degree / 25), 4), in units of 0.0001
importance(df, max_df, degree) ==
    (IF max_df = 0 THEN 0 ELSE RoundDiv(DocWeight * df, max_df))
    + (DegreeWeight * Min2(degree, DegreeScale)) \div DegreeScale

\* the select of the class's concepts and max(doc_freqs)
ScoreFetch(p) ==
    /\ up[p].pc = "score"
    /\ LET rows == sorted_by_id({c \in concepts : c.class_id = up[p].class_id})
           doc_freqs == {score_df(rows[k]) : k \in 1..Len(rows)}
       IN  up' = SetProc(p,
                 IF rows = <<>>
                 THEN [up[p] EXCEPT !.pc = "done", !.status = "returned"]
                 ELSE [up[p] EXCEPT !.pc = "score_one", !.i = 1,
                         !.snapshot = [k \in 1..Len(rows) |->
                                         [id |-> rows[k].id, df |-> score_df(rows[k])]],
                         !.max_df = CHOOSE m \in doc_freqs :
                                       \A x \in doc_freqs : x <= m])
    /\ UNCHANGED <<kgvars, tables, next_id, uploads, merges, last_merge>>

\* one pass of `for idx, c in enumerate(concepts)`
ScoreOne(p) ==
    /\ up[p].pc = "score_one"
    /\ up[p].i <= Len(up[p].snapshot)
    /\ LET c == up[p].snapshot[up[p].i]
           score == importance(c.df, up[p].max_df,
                               weighted_degree(up[p].class_id, c.id))
       IN  concepts' = {IF r.id = c.id THEN [r EXCEPT !.importance_score = score]
                        ELSE r : r \in concepts}
    /\ up' = SetProc(p, [up[p] EXCEPT !.i = @ + 1])
    /\ UNCHANGED <<kgvars, concept_edges, concept_doc_mentions, concept_aliases,
                   next_id, uploads, merges, last_merge>>

ScoreDone(p) ==
    /\ up[p].pc = "score_one"
    /\ up[p].i > Len(up[p].snapshot)
    /\ up' = SetProc(p, [up[p] EXCEPT !.pc = "done", !.status = "ok",
                           !.snapshot = <<>>])
    /\ UNCHANGED <<kgvars, tables, next_id, uploads, merges, last_merge>>

\* upload() returns its response
FinishUpload(p) ==
    /\ up[p].pc = "done"
    /\ up' = SetProc(p, IdleProc)
    /\ UNCHANGED <<kgvars, tables, next_id, uploads, merges, last_merge>>

\* the steps of update_class_graph that write to the store
WriteSteps ==
    {"concept_write", "mention", "edge_write", "related_write", "prune",
     "score_one"}

\* one .execute() of a write raises: no statement of update_class_graph is
\* inside a try, so the exception leaves it with the rows written so far in
\* place; upload() logs it and goes on to its response
WriteFails(p) ==
    /\ up[p].pc \in WriteSteps
    /\ up[p].pc = "score_one" => up[p].i <= Len(up[p].snapshot)
    /\ up' = SetProc(p, [Raised(p) EXCEPT !.failed_at = up[p].pc])
    /\ UNCHANGED <<kgvars, tables, next_id, uploads, merges, last_merge>>

----------------------------------------------------------------------------
(* Merge Resolver: routers/concept_merge.merge_concepts *)

MaxMerges == 1

\* update({"merged_into": keep}).eq("id", merge)
mark_merged(rows, keep_concept_id, merge_concept_id) ==
    {IF c.id = merge_concept_id
     THEN [c EXCEPT !.merged_into = keep_concept_id] ELSE c : c \in rows}

\* the rows stay with the merged concept
move_rows_nowhere(rows, keep_concept_id, merge_concept_id) == rows

\* update({"concept_id": keep}) on every row whose concept_id is merge; used
\* for the aliases (row by row) and for the mentions (one statement)
move_rows(rows, keep_concept_id, merge_concept_id) ==
    {IF r.concept_id = merge_concept_id
     THEN [r EXCEPT !.concept_id = keep_concept_id] ELSE r : r \in rows}

\* every request is let through
merge_accepts_any(keep_concept_id, merge_concept_id) == TRUE

\* the test of the handler's first line, negated
merge_accepts(keep_concept_id, merge_concept_id) ==
    keep_concept_id # merge_concept_id

\* an accepted request: keep differs from merge
Merge(class_id, keep_concept_id, merge_concept_id) ==
    /\ \A q \in Procs : up[q].pc = "idle"
    /\ merge_accepts(keep_concept_id, merge_concept_id)
    /\ concepts' = mark_merged(concepts, keep_concept_id, merge_concept_id)
    /\ concept_aliases' = move_rows(concept_aliases, keep_concept_id, merge_concept_id)
    /\ concept_doc_mentions' =
          move_rows(concept_doc_mentions, keep_concept_id, merge_concept_id)
    /\ merges' = merges + 1
    /\ last_merge' = [keep |-> keep_concept_id, merge |-> merge_concept_id]
    /\ UNCHANGED <<kgvars, concept_edges, up, next_id, uploads>>

\* keep equal to merge: HTTPException(400) is raised before any statement
\* on the store; the request is remembered as the last one answered
RejectMerge(class_id, keep_concept_id, merge_concept_id) ==
    /\ \A q \in Procs : up[q].pc = "idle"
    /\ ~merge_accepts(keep_concept_id, merge_concept_id)
    /\ last_merge' = [keep |-> keep_concept_id, merge |-> merge_concept_id]
    /\ UNCHANGED <<kgvars, tables, up, next_id, uploads, merges>>

----------------------------------------------------------------------------
(* Requests *)

NameA == <<"a">>
NameUpperA == <<"A", " ">>
NameB == <<"b">>
NameBDot == <<"b", ".">>
NameBlank == <<" ">>

\* concept names of a document, in order
NameLists ==
    {<<NameA, NameB>>, <<NameBDot, NameUpperA>>, <<NameBlank, NameA, NameUpperA>>}

Proposal(f, t, ty) == [from |-> f, to |-> t, type |-> ty]

\* precomputed edges of the guide_json and the oracle's reply
EdgeSources ==
    {[edges |-> <<>>, oracle_edges |-> <<>>],
     [edges |-> <<Proposal(NameUpperA, NameB, "prereq")>>, oracle_edges |-> <<>>],
     [edges |-> <<Proposal(NameB, NameA, "prereq"),
                  Proposal(NameB, NameUpperA, "prereq")>>,
      oracle_edges |-> <<>>],
     [edges |-> <<>>,
      oracle_edges |-> <<Proposal(NameA, NameB, "related"),
                         Proposal(NameA, NameUpperA, "prereq"),
                         Proposal(NameB, NameA, "supports"),
                         Proposal(NameB, NameA, "causes")>>]}

Documents ==
    {[class_id |-> "c1", names |-> n, edges |-> s.edges,
      oracle_edges |-> s.oracle_edges] : n \in NameLists, s \in EdgeSources}
    \cup
    {[class_id |-> "c2", names |-> <<NameA, NameB>>,
      edges |-> <<Proposal(NameA, NameB, "prereq")>>, oracle_edges |-> <<>>]}

----------------------------------------------------------------------------
(* Alias matcher: services/concept_match.match_or_create_concepts.  No request
   handler calls it; it is the only writer of concept_aliases. *)

AliasConfidenceNew == 95
AliasConfidenceSeen == 80

\* " ".join(s.lower().strip().split())
norm(s) == strip(collapse_ws(lower(s)))

\* {r["normalized_alias"]: r["concept_id"] for r in alias_rows}: the select has
\* no order, so for an alias held by rows of several concepts any of them may
\* be the one the dict ends with
AliasMaps(rows) ==
    LET keys == {r.normalized_alias : r \in rows}
    IN  {f \in [keys -> {r.concept_id : r \in rows}] :
           \A n \in keys :
             \E r \in rows : r.normalized_alias = n /\ r.concept_id = f[n]}

\* alias_map.get(n)
alias_get(alias_map, n) ==
    IF n \in DOMAIN alias_map THEN alias_map[n] ELSE Null

\* existing[0]["id"] of the rows with exactly this canonical_name, else Null
exact_concept(rows, class_id, name) ==
    LET existing == {c \in rows : c.class_id = class_id /\ c.canonical_name = name}
    IN  IF existing = {} THEN Null
        ELSE (CHOOSE c \in existing : \A d \in existing : c.id <= d.id).id

\* the insert of an alias; unique tells whether the table refuses a second row
\* of the same (class_id, concept_id, normalized_alias), which the except hides
alias_insert(rows, row, guarded, unique) ==
    IF /\ guarded
       /\ unique
       /\ \E r \in rows : /\ r.class_id = row.class_id
                          /\ r.concept_id = row.concept_id
                          /\ r.normalized_alias = row.normalized_alias
    THEN rows ELSE rows \cup {row}

\* upsert mention evidence: mention_count + 1 on the first row found, or a new
\* row of count 1
mention_upsert(rows, class_id, document_id, concept_id, new_id) ==
    LET existing_m == {m \in rows : m.document_id = document_id
                                     /\ m.concept_id = concept_id}
        m0 == CHOOSE m \in existing_m : \A x \in existing_m : m.id <= x.id
    IN  IF existing_m # {}
        THEN {IF m.id = m0.id THEN [m EXCEPT !.mention_count = @ + 1] ELSE m :
                m \in rows}
        ELSE rows \cup {[id |-> new_id, class_id |-> class_id,
                         concept_id |-> concept_id, document_id |-> document_id,
                         mention_count |-> 1]}

\* one turn of `for c in concepts` on the tables st
match_one(st, raw_name, class_id, document_id, alias_map, unique) ==
    LET name == strip(raw_name)
        n == norm(name)
        by_alias == alias_get(alias_map, n)
        found == IF by_alias # Null THEN by_alias
                 ELSE exact_concept(st.concepts, class_id, name)
        create == found = Null
        concept_id == IF create THEN st.next_id ELSE found
        alias_id == IF create THEN st.next_id + 1 ELSE st.next_id
        alias_row == [id |-> alias_id, class_id |-> class_id,
                      concept_id |-> concept_id, alias |-> name,
                      normalized_alias |-> n,
                      confidence |-> IF create THEN AliasConfidenceNew
                                     ELSE AliasConfidenceSeen]
    IN  [concepts |->
            IF create
            THEN st.concepts \cup
                   {[id |-> concept_id, class_id |-> class_id,
                     canonical_name |-> name, document_frequency |-> NoValue,
                     importance_score |-> NoValue, merged_into |-> Null]}
            ELSE st.concepts,
         aliases |-> alias_insert(st.aliases, alias_row, ~create, unique),
         mentions |-> mention_upsert(st.mentions, class_id, document_id,
                                     concept_id, alias_id + 1),
         next_id |-> alias_id + 2]

RECURSIVE match_loop(_, _, _, _, _, _, _)
match_loop(st, names, i, class_id, document_id, alias_map, unique) ==
    IF i > Len(names) THEN st
    ELSE match_loop(match_one(st, names[i], class_id, document_id, alias_map,
                              unique),
                    names, i + 1, class_id, document_id, alias_map, unique)

\* the names of the extracted concepts of a call
MatchNameLists == {<<NameA>>, <<NameB, NameB>>, <<NameUpperA>>}

\* a call for a document of its own; it counts as a processed document
match_or_create_concepts(class_id, names, unique) ==
    /\ \A q \in Procs : up[q].pc = "idle"
    /\ uploads < MaxUploads
    /\ \E alias_map \in AliasMaps({r \in concept_aliases : r.class_id = class_id}) :
         LET st == match_loop([concepts |-> concepts,
                               aliases |-> concept_aliases,
                               mentions |-> concept_doc_mentions,
                               next_id |-> next_id + 1],
                              names, 1, class_id, next_id, alias_map, unique)
         IN  /\ concepts' = st.concepts
             /\ concept_aliases' = st.aliases
             /\ concept_doc_mentions' = st.mentions
             /\ next_id' = st.next_id
    /\ uploads' = uploads + 1
    /\ UNCHANGED <<kgvars, concept_edges, up, merges, last_merge>>

----------------------------------------------------------------------------
ConceptIds == {c.id : c \in concepts}

Init ==
    /\ KGUnused
    /\ StoreUnused

Upload(p) == \E d \in Documents : StartUpload(p, d)

MergeRequest ==
    /\ merges < MaxMerges
    /\ \E c \in Classes, k \in ConceptIds, m \in ConceptIds : Merge(c, k, m)

SelfMergeRequest ==
    \E c \in Classes, k \in ConceptIds : RejectMerge(c, k, k)

UploadStep(p) ==
    \/ SkipBlankName(p)
    \/ LookupConcept(p)
    \/ WriteConcept(p)
    \/ InsertMention(p)
    \/ ConceptsDone(p)
    \/ SkipEdge(p)
    \/ LookupEdge(p)
    \/ WriteEdge(p)
    \/ EdgesDone(p)
    \/ LookupRelated(p)
    \/ WriteRelated(p)
    \/ RelatedDone(p)
    \/ Prune(p)
    \/ ScoreFetch(p)
    \/ ScoreOne(p)
    \/ ScoreDone(p)
    \/ FinishUpload(p)

Next ==
    \/ \E p \in Procs : Upload(p) \/ UploadStep(p)
    \/ MergeRequest
    \/ SelfMergeRequest

Spec == Init /\ [][Next]_vars

\* what becomes of the oracle calls of one upload: all answer; a call inside
\* asyncio.gather raises or its reply cannot be parsed; the call of
\* extract_relationships raises or its reply cannot be parsed
RelationshipsOutcomes ==
    {"ok", "relationships_unparsable", "relationships_fails"}

OracleUpload(p) ==
    \E d \in Documents :
        \/ GatherRaises(p, d)
        \/ EmptyGraph(p, d)
        \/ \E o \in RelationshipsOutcomes : BeginUpload(p, d, o)

\* uploads whose oracle calls may fail
NextOracle ==
    \E p \in Procs :
        \/ OracleUpload(p)
        \/ UploadStep(p)
        \/ RelationshipsRaise(p)

SpecOracle == Init /\ [][NextOracle]_vars

\* two uploads of one document to one class, side by side: every statement
\* on the store is a step of its own, and no lock or transaction joins a
\* lookup to the write that follows it
ConcurrentDocument ==
    [class_id |-> "c1", names |-> <<NameA, NameB>>,
     edges |-> <<Proposal(NameA, NameB, "prereq")>>, oracle_edges |-> <<>>]

InitConcurrent ==
    /\ KGUnused
    /\ concepts = {}
    /\ concept_edges = {}
    /\ concept_doc_mentions = {}
    /\ concept_aliases = {}
    /\ up = [p \in TwoRequests |-> IdleProc]
    /\ next_id = 1
    /\ uploads = 0
    /\ merges = 0
    /\ last_merge = [keep |-> Null, merge |-> Null]

ConcurrentUpload(p) == EnterUpload(p, ConcurrentDocument, "ok")

NextConcurrent ==
    \E p \in Procs :
        \/ ConcurrentUpload(p)
        \/ LookupConcept(p)
        \/ WriteConcept(p)
        \/ InsertMention(p)
        \/ ConceptsDone(p)
        \/ LookupEdge(p)
        \/ WriteEdge(p)
        \/ EdgesDone(p)
        \/ LookupRelated(p)
        \/ WriteRelated(p)
        \/ RelatedDone(p)
        \/ Prune(p)
        \/ ScoreFetch(p)
        \/ ScoreOne(p)
        \/ ScoreDone(p)
        \/ FinishUpload(p)

SpecConcurrent == InitConcurrent /\ [][NextConcurrent]_vars

\* uploads one of whose store writes may fail
NextWriteFail ==
    \E p \in Procs :
        \/ Upload(p)
        \/ UploadStep(p)
        \/ WriteFails(p)

SpecWriteFail == Init /\ [][NextWriteFail]_vars

MatchOrCreate ==
    \E c \in Classes, names \in MatchNameLists, unique \in BOOLEAN :
        match_or_create_concepts(c, names, unique)

\* the requests together with calls of the alias matcher
NextAlias ==
    \/ \E p \in Procs : Upload(p) \/ UploadStep(p)
    \/ MergeRequest
    \/ MatchOrCreate

SpecAlias == Init /\ [][NextAlias]_vars

\* merge requests one after another
MaxMergeChain == 2

MergeChainRequest ==
    /\ merges < MaxMergeChain
    /\ \E c \in Classes, k \in ConceptIds, m \in ConceptIds : Merge(c, k, m)

NextMerge ==
    \/ \E p \in Procs : Upload(p) \/ UploadStep(p)
    \/ MergeChainRequest
    \/ SelfMergeRequest

SpecMerge == Init /\ [][NextMerge]_vars
----------------------------------------------------------------------------
(* The Importance Scorer on a class that many uploads have built: concepts a
   and b named together by most documents, concept c by few, and the prereq
   and causes edges a -> b that those documents proposed *)

MaxFrequency == 26

\* document frequencies of a and b, and of c
HighFrequencies == {MaxFrequency - 2, MaxFrequency - 1, MaxFrequency}
LowFrequencies == {1, 7, MaxFrequency}

\* weights of an edge a -> b; 0 stands for no edge
EdgeWeights == {0, 1, MaxFrequency - 2, MaxFrequency - 1}

ScoredConcept(id, name, df) ==
    [id |-> id, class_id |-> "c1", canonical_name |-> name,
     document_frequency |-> df, importance_score |-> DefaultImportance,
     merged_into |-> Null]

ScoredEdge(id, type, weight) ==
    [id |-> id, class_id |-> "c1", from_concept_id |-> 1, to_concept_id |-> 2,
     type |-> type, weight |-> weight]

\* one mention row per document that named the concept
ScoredMentions(cid, df) ==
    {[id |-> 100 * cid + d, class_id |-> "c1", concept_id |-> cid,
      document_id |-> 1000 + d, mention_count |-> NoValue] : d \in 1..df}

\* a request of the class has pruned and is about to score
InitScore ==
    /\ KGUnused
    /\ \E fa \in HighFrequencies, fb \in HighFrequencies, fc \in LowFrequencies,
          w1 \in EdgeWeights, w2 \in EdgeWeights :
         /\ w1 <= Min2(fa, fb)
         /\ w2 <= Min2(fa, fb)
         /\ concepts = {ScoredConcept(1, NameA, fa), ScoredConcept(2, NameB, fb),
                        ScoredConcept(3, <<"c">>, fc)}
         /\ concept_edges =
              {e \in {ScoredEdge(4, "prereq", w1), ScoredEdge(5, "causes", w2)} :
                 e.weight > 0}
         /\ concept_doc_mentions =
              ScoredMentions(1, fa) \cup ScoredMentions(2, fb)
                \cup ScoredMentions(3, fc)
    /\ concept_aliases = {}
    /\ up = [p \in OneRequest |->
               [IdleProc EXCEPT !.pc = "score", !.class_id = "c1",
                                !.doc_id = 1000 + MaxFrequency,
                                !.names = <<NameA, NameB>>,
                                !.concept_ids = <<1, 2>>]]
    /\ next_id = 100 * 4
    /\ uploads = MaxUploads
    /\ merges = 0
    /\ last_merge = [keep |-> Null, merge |-> Null]

NextScore == \E p \in Procs : ScoreFetch(p) \/ ScoreOne(p) \/ ScoreDone(p)

SpecScore == InitScore /\ [][NextScore]_vars

\* the request has scored every concept of its class
Scored(p) == up[p].pc = "done" /\ up[p].status = "ok"

ClassConcepts(class_id) == {c \in concepts : c.class_id = class_id}

MaxOf(S) == CHOOSE m \in S : \A x \in S : x <= m

MaxFrequencyOf(class_id) ==
    MaxOf({score_df(c) : c \in ClassConcepts(class_id)})

MaxDegreeOf(class_id) ==
    MaxOf({weighted_degree(class_id, c.id) : c \in ClassConcepts(class_id)})

\* x / y is within 0.00005 of the score (scores are in units of 0.0001)
IsRounded(score, x, y) == 2 * (score * y - x) <= y /\ 2 * (x - score * y) <= y

\* the concept has the class-maximum frequency and the class-maximum degree
IsTopConcept(c) ==
    /\ score_df(c) = MaxFrequencyOf(c.class_id)
    /\ weighted_degree(c.class_id, c.id) = MaxDegreeOf(c.class_id)

\* the frequency term alone for a concept without edges
ZeroEdgeScore(c) ==
    weighted_degree(c.class_id, c.id) = 0 =>
        IsRounded(c.importance_score, DocWeight * score_df(c),
                  MaxFrequencyOf(c.class_id))

\* C18 as stated: after scoring, the concept with the class-maximum frequency
\* and the class-maximum weighted degree (of at least one edge) has
\* importance_score 1.0, and a concept with no edge has the frequency term
\* alone.
C18_TopConceptScoresOne ==
    \A p \in Procs :
        Scored(p) =>
            \A c \in ClassConcepts(up[p].class_id) :
                /\ (IsTopConcept(c) /\ weighted_degree(c.class_id, c.id) > 0) =>
                     c.importance_score = 10000
                /\ ZeroEdgeScore(c)

\* C18: after scoring, the concept with the class-maximum frequency and the
\* class-maximum weighted degree has importance_score 0.6 + 0.4 * min(1,
\* weighted degree / 25), which is 1.0 exactly when its weighted degree is at
\* least 25; a concept with no edge has the frequency term alone, 0.6 *
\* frequency / maximum frequency rounded to four decimals.
C18_TopConceptScore ==
    \A p \in Procs :
        Scored(p) =>
            \A c \in ClassConcepts(up[p].class_id) :
                /\ IsTopConcept(c) =>
                     /\ 25 * c.importance_score =
                          25 * 6000 + 4000 * Min2(25, weighted_degree(c.class_id, c.id))
                     /\ c.importance_score = 10000 <=>
                          weighted_degree(c.class_id, c.id) >= 25
                /\ ZeroEdgeScore(c)

\* scored: the top concept has weighted degree above 25 and score 1.0, and a
\* concept without edges has a score that needed rounding
C18_Witness ==
    \E p \in Procs :
        /\ Scored(p)
        /\ \E c \in ClassConcepts(up[p].class_id) :
             /\ IsTopConcept(c)
             /\ weighted_degree(c.class_id, c.id) > 25
             /\ c.importance_score = 10000
        /\ \E c \in ClassConcepts(up[p].class_id) :
             /\ weighted_degree(c.class_id, c.id) = 0
             /\ c.importance_score = 1615

----------------------------------------------------------------------------
(* The oracle's callers: json_utils.safe_json_loads, and the calls of
   concept_engine.extract_relationships and of the candidate pass of
   knowledge_graph.extract_knowledge_graph.  A reply is a sequence of tokens:
   a code fence, brackets, "e" for a well-formed member such as "edges": [..]
   and "w" for any other text; NotText is a reply that is not a string *)

MaxReplyLen == 4

ReplyTokens == {"FENCE", "{", "}", "[", "]", "e", "w"}

NotText == <<"NOT_TEXT">>

\* str.find and str.rfind: 0 where Python gives -1
find(t, c) ==
    IF \E k \in 1..Len(t) : t[k] = c
    THEN CHOOSE k \in 1..Len(t) : t[k] = c /\ \A j \in 1..(k - 1) : t[j] # c
    ELSE 0

rfind(t, c) ==
    IF \E k \in 1..Len(t) : t[k] = c
    THEN CHOOSE k \in 1..Len(t) : t[k] = c /\ \A j \in (k + 1)..Len(t) : t[j] # c
    ELSE 0

clean_llm_text(s) == strip(SelectSeq(s, LAMBDA c : c # "FENCE"))

\* <<>> stands for None
extract_json_substring(s) ==
    LET t == clean_llm_text(s)
        start_obj == find(t, "{")
        start_arr == find(t, "[")
        start == IF start_obj = 0 THEN start_arr
                 ELSE IF start_arr = 0 THEN start_obj
                 ELSE Min2(start_obj, start_arr)
        end_char == IF start = start_obj THEN "}" ELSE "]"
        end == rfind(t, end_char)
    IN  IF t = <<>> THEN <<>>
        ELSE IF start_obj = 0 /\ start_arr = 0 THEN <<>>
        ELSE IF end = 0 \/ end <= start THEN <<>>
        ELSE SubSeq(t, start, end)

\* json.loads: the kind of value read, or "invalid" where it raises
RECURSIVE json_loads(_)
json_loads(sub) ==
    IF sub = <<"{", "}">> THEN "dict"
    ELSE IF sub = <<"{", "e", "}">> THEN "dict_with_list"
    ELSE IF Len(sub) >= 2 /\ sub[1] = "[" /\ sub[Len(sub)] = "]"
            /\ (Len(sub) = 2
                \/ json_loads(SubSeq(sub, 2, Len(sub) - 1)) # "invalid")
         THEN "list"
    ELSE "invalid"

\* safe_json_loads(s, default=...): "default" where it returns its default;
\* raised where the regular expression is given something that is not a string
safe_json_loads(s) ==
    IF s = NotText THEN [raised |-> TRUE, value |-> "default"]
    ELSE LET sub == extract_json_substring(s) IN
         [raised |-> FALSE,
          value |-> IF sub = <<>> \/ json_loads(sub) = "invalid"
                    THEN "default" ELSE json_loads(sub)]

\* parsed.get("edges", []) if isinstance(parsed, dict) else []; the default
\* is a dict with an empty list
list_of(parsed) == IF parsed.value = "dict_with_list" THEN "list" ELSE "empty"

\* extract_relationships for two or more names: the requests it sends and
\* the edges it returns
ask_relationships(rs) ==
    LET parsed == safe_json_loads(rs[1])
        parsed2 == safe_json_loads(rs[2])
    IN  IF ~parsed.raised
        THEN [requests |-> <<"plain">>, answer |-> list_of(parsed)]
        ELSE [requests |-> <<"plain", "strict">>,
              answer |-> IF parsed2.raised THEN "empty" ELSE list_of(parsed2)]

\* the candidate pass of extract_knowledge_graph: one request, no handler
ask_candidates(rs) ==
    LET cand_data == safe_json_loads(rs[1])
    IN  [requests |-> <<"plain">>,
         answer |-> IF cand_data.raised THEN "raised" ELSE list_of(cand_data)]

Replies == SeqUpTo(ReplyTokens, MaxReplyLen) \cup {NotText}

SecondReplies == {<<"{", "e", "}">>, <<"w">>, NotText}

InitAsk ==
    /\ kgpc = "ask"
    /\ BuildUnused
    /\ CycleUnused
    /\ NamesUnused
    /\ StoreUnused
    /\ replies \in {<<r1, r2>> : r1 \in Replies, r2 \in SecondReplies}
    /\ requests = <<>>
    /\ answer = <<>>

AskRelationships ==
    /\ kgpc = "ask"
    /\ \E r \in {ask_relationships(replies)} :
         /\ requests' = r.requests
         /\ answer' = r.answer
    /\ kgpc' = "relationships"
    /\ UNCHANGED <<replies, cyclevars, buildvars, namevars, storevars>>

AskCandidates ==
    /\ kgpc = "ask"
    /\ \E r \in {ask_candidates(replies)} :
         /\ requests' = r.requests
         /\ answer' = r.answer
    /\ kgpc' = "candidates"
    /\ UNCHANGED <<replies, cyclevars, buildvars, namevars, storevars>>

NextAsk == AskRelationships \/ AskCandidates

SpecAsk == InitAsk /\ [][NextAsk]_vars

\* the reply can be parsed into a JSON object
Parses(r) ==
    /\ r # NotText
    /\ safe_json_loads(r).value \in {"dict", "dict_with_list"}

\* C23: a caller whose first reply cannot be parsed into the expected JSON
\* object sends exactly one second, strict request, and a caller whose first
\* reply can be parsed sends none; the empty result is used for a failed call
\* only when the second reply cannot be parsed either.
C23_OneRepairRetry ==
    kgpc \in {"relationships", "candidates"} =>
        /\ requests = IF Parses(replies[1]) THEN <<"plain">>
                      ELSE <<"plain", "strict">>
        /\ answer # "raised"
        /\ (~Parses(replies[1]) /\ Parses(replies[2])) =>
              answer = list_of(safe_json_loads(replies[2]))

----------------------------------------------------------------------------
(* One document from the candidates to the stored graph:
   knowledge_graph.extract_knowledge_graph, then upload() hands the graph to
   update_class_graph *)

MaxNodes == 12
MinImportance == 3
FallbackBelow == 6
ValidatedMinEdges == 4

\* the sort without reverse=True: the least important candidate comes first
sorted_rank_ascending(cs, k) ==
    1 + Cardinality({j \in 1..Len(cs) :
                       \/ cs[j].importance < cs[k].importance
                       \/ cs[j].importance = cs[k].importance /\ j < k})

\* sorted(cands, key=score, reverse=True): stable, so candidates of equal
\* importance keep their order.  sorted_rank is the place of cs[k] in the result
sorted_rank(cs, k) ==
    1 + Cardinality({j \in 1..Len(cs) :
                       \/ cs[j].importance > cs[k].importance
                       \/ cs[j].importance = cs[k].importance /\ j < k})

sorted_by_importance(cs) ==
    [r \in 1..Len(cs) |-> cs[CHOOSE k \in 1..Len(cs) : sorted_rank(cs, k) = r]]

\* candidates are those _dedupe_candidates returned: objects with a string name
_pick_top(cs, keep_names, max_nodes, min_importance) ==
    LET wanted_norm == {_normalize_name(keep_names[k]) :
                          k \in {j \in 1..Len(keep_names) : keep_names[j] # <<>>}}
        matched == SelectSeq(cs, LAMBDA c :
                       strip(c.name) # <<>>
                       /\ _normalize_name(strip(c.name)) \in wanted_norm)
        chosen == IF Len(matched) < FallbackBelow
                  THEN sorted_by_importance(cs) ELSE matched
    IN  Take(SelectSeq(chosen, LAMBDA c : c.importance >= min_importance),
             max_nodes)

----------------------------------------------------------------------------
(* Inputs of the Node Selector: seven candidates with names of their own, and
   keep lists that name all of them but at most two of the first, the second
   and the last, in another spelling and in the opposite order *)

PickNames == <<(<<"A">>), (<<"b">>), (<<"c">>), (<<"o">>), (<<"n">>), (<<"r">>), (<<"e">>)>>

\* the spelling of the refinement round
KeepSpelling == <<(<<"a">>), (<<"B">>), (<<"C">>), (<<"O">>), (<<"N">>), (<<"R">>), (<<"e">>)>>

PickImportances == {2, 3, 5}

PickCandidates ==
    {[i \in 1..Len(PickNames) |-> Candidate(TRUE, "str", PickNames[i], imp[i])] :
        imp \in [1..Len(PickNames) -> PickImportances]}

KeepLists ==
    {Reverse(SelectSeq(KeepSpelling, LAMBDA n : n \notin left_out)) :
        left_out \in {S \in SUBSET {<<"a">>, <<"B">>, <<"e">>} :
                         Cardinality(S) <= 2}}

InitPick ==
    /\ kgpc = "pick"
    /\ BuildUnused
    /\ CycleUnused
    /\ OracleUnused
    /\ StoreUnused
    /\ name_in = <<>>
    /\ name_key = <<>>
    /\ name_key2 = <<>>
    /\ cands_out = [raised |-> FALSE, out |-> <<>>]
    /\ cands \in PickCandidates
    /\ keep_arg \in KeepLists
    /\ max_nodes_arg \in {3, MaxNodes}
    /\ picked = <<>>

PickTop ==
    /\ kgpc = "pick"
    /\ picked' = _pick_top(cands, keep_arg, max_nodes_arg, MinImportance)
    /\ kgpc' = "picked"
    /\ UNCHANGED <<name_in, name_key, name_key2, cands, cands_out, keep_arg,
                   max_nodes_arg, cyclevars, buildvars, storevars, oraclevars>>

NextPick == PickTop

SpecPick == InitPick /\ [][NextPick]_vars

\* the candidate is named by the keep list, by canonical key
InKeepSet(c) ==
    \E k \in 1..Len(keep_arg) :
        /\ keep_arg[k] # <<>>
        /\ _normalize_name(keep_arg[k]) = _normalize_name(strip(c.name))

MatchingCount == Cardinality({i \in 1..Len(cands) : InKeepSet(cands[i])})

\* the place of a candidate in the candidate list
PlaceOf(c) == CHOOSE i \in 1..Len(cands) : cands[i] = c

\* C28: _pick_top returns at most max_nodes candidates, each of importance
\* min_importance or more; with six or more candidates in the keep set it
\* returns only candidates of the keep set, in candidate order; with fewer it
\* returns the head of all candidates sorted by falling importance, those of
\* equal importance in candidate order.
C28_PickTop ==
    kgpc = "picked" =>
        /\ Len(picked) <= max_nodes_arg
        /\ \A k \in 1..Len(picked) :
             picked[k] \in Range(cands) /\ picked[k].importance >= MinImportance
        /\ MatchingCount >= FallbackBelow =>
             /\ \A k \in 1..Len(picked) : InKeepSet(picked[k])
             /\ \A j \in 1..Len(picked), k \in 1..Len(picked) :
                  j < k => PlaceOf(picked[j]) < PlaceOf(picked[k])
        /\ MatchingCount < FallbackBelow =>
             /\ \A j \in 1..Len(picked), k \in 1..Len(picked) :
                  j < k =>
                    \/ picked[j].importance > picked[k].importance
                    \/ /\ picked[j].importance = picked[k].importance
                       /\ PlaceOf(picked[j]) < PlaceOf(picked[k])
             /\ \A i \in 1..Len(cands) :
                  cands[i] \notin Range(picked)
                  /\ cands[i].importance >= MinImportance =>
                    /\ Len(picked) = max_nodes_arg
                    /\ \A k \in 1..Len(picked) :
                         \/ picked[k].importance > cands[i].importance
                         \/ /\ picked[k].importance = cands[i].importance
                            /\ PlaceOf(picked[k]) < i

\* six of the seven candidates are in the keep set; the seventh, the most
\* important one, is left out, and so is a kept one of low importance
C28_Witness ==
    /\ kgpc = "picked"
    /\ MatchingCount = 6
    /\ \E i \in 1..Len(cands) :
         /\ ~InKeepSet(cands[i])
         /\ cands[i].importance = 5
         /\ \A j \in 1..Len(cands) : j # i => cands[j].importance < 5
    /\ max_nodes_arg = MaxNodes
    /\ Len(picked) = 5

\* five candidates are in the keep set: the three most important of all seven
\* are returned, among them one outside the keep set
C28_WitnessFallback ==
    /\ kgpc = "picked"
    /\ MatchingCount = 5
    /\ max_nodes_arg = 3
    /\ Len(picked) = 3
    /\ \E k \in 1..Len(picked) : ~InKeepSet(picked[k])
    /\ picked[1].importance > picked[3].importance

\* the raw edge list sent to, and returned by, the validation round
edge_payload(es) ==
    [k \in 1..Len(es) |->
        [from |-> es[k].src, to |-> es[k].dst, type |-> es[k].typ,
         label |-> es[k].label, strength |-> es[k].strength,
         evidence |-> es[k].evidence]]

BigONotation ==
    <<"B", "i", "g", "-", "O", " ", "N", "o", "t", "a", "t", "i", "o", "n">>
big_o_notation ==
    <<"b", "i", "g", " ", "o", " ", "n", "o", "t", "a", "t", "i", "o", "n">>
Recursion == <<"R", "e", "c", "u", "r", "s", "i", "o", "n">>

\* the three candidates in every order, each of importance 3 to 5
ScenarioCandidates ==
    {[i \in 1..3 |-> Candidate(TRUE, "str", ns[i], imp[i])] :
        ns \in {q \in [1..3 -> {BigONotation, big_o_notation, Recursion}] :
                  \A i \in 1..3, j \in 1..3 : i # j => q[i] # q[j]},
        imp \in [1..3 -> MinImportance..5]}

ScenarioEdges ==
    <<[from |-> Recursion, to |-> BigONotation, type |-> "prereq",
       label |-> <<>>, strength |-> 0, evidence |-> <<>>]>>

InitScenario ==
    /\ kgpc = "extract"
    /\ CycleUnused
    /\ StoreUnused
    /\ name_in = <<>>
    /\ name_key = <<>>
    /\ OracleUnused
    /\ name_key2 = <<>>
    /\ SelectUnused
    /\ cands \in ScenarioCandidates
    /\ cands_out = [raised |-> FALSE, out |-> <<>>]
    /\ edges_raw = ScenarioEdges
    /\ kept_names \in {<<>>, <<BigONotation, Recursion>>}
    /\ text = <<>>
    /\ max_edges = DefaultMaxEdges
    /\ edges1 = <<>>
    /\ ValidUnused

\* the validated edges take the place of the others
accept_validated_always(before, after) == after

\* `if len(edges2) >= 4: edges_final = edges2`
accept_validated(before, after) ==
    IF Len(after) >= ValidatedMinEdges THEN after ELSE before

Verdicts == {"keep", "drop", "downgrade", "reverse"}

revise_one(e, verdict) ==
    CASE verdict = "keep" -> <<e>>
      [] verdict = "drop" -> <<>>
      [] verdict = "downgrade" -> <<[e EXCEPT !.type = "related"]>>
      [] verdict = "reverse" -> <<[e EXCEPT !.from = e.to, !.to = e.from]>>

\* the payload with one verdict per edge
revise(payload, verdicts) ==
    Concat([k \in 1..Len(payload) |-> revise_one(payload[k], verdicts[k])])

\* the edge lists the validation round may return for a payload: the payload
\* or no edges ("echo"), or the payload with a verdict on every edge ("revise")
ValidateReplies(round, payload) ==
    IF round = "echo" THEN {payload, <<>>}
    ELSE {revise(payload, v) : v \in [1..Len(payload) -> Verdicts]}

\* extract_knowledge_graph from the candidate reply on, each step on the
\* value of the one before; kept_names holds the refine round's keep list
\* before, the names of the graph's concepts after
ExtractWith(round) ==
    /\ kgpc = "extract"
    /\ \E deduped \in {_dedupe_candidates(cands).out} :
       \E selected \in {_pick_top(deduped, MapSeq(strip, kept_names),
                                  MaxNodes, MinImportance)} :
       \E kept \in {SelectSeq(MapSeq(LAMBDA c : strip(c.name), selected),
                              LAMBDA n : n # <<>>)} :
       \E kept_norm_to_name \in {kept_map(kept)},
          text_norm \in {text_norm_of(text)} :
       \E built1 \in {_build_edge_list(edges_raw, kept_norm_to_name, text_norm,
                                       DefaultMaxEdges)} :
       \E e1 \in {_break_cycles(built1)} :
          /\ cands_out' = [raised |-> FALSE, out |-> deduped]
          /\ kept_names' = MapSeq(LAMBDA c : c.name, selected)
          /\ pre_validation' = e1
          /\ IF e1 = <<>>
             THEN /\ edges1' = e1
                  /\ validate_reply' = <<>>
                  /\ validated_edges' = <<>>
             ELSE \E vraw \in ValidateReplies(round,
                                  edge_payload(Take(e1, DefaultMaxEdges))) :
                  \E built2 \in {_build_edge_list(vraw, kept_norm_to_name,
                                                  text_norm, DefaultMaxEdges)} :
                  \E e2 \in {_break_cycles(built2)} :
                     /\ validate_reply' = vraw
                     /\ validated_edges' = e2
                     /\ edges1' = accept_validated(e1, e2)
    /\ kgpc' = "extracted"
    /\ UNCHANGED <<name_in, name_key, name_key2, cands, selectvars, edges_raw,
                   text, max_edges, cyclevars, storevars, oraclevars>>

\* the validation round echoes its payload or returns no edges
ExtractKnowledgeGraph == ExtractWith("echo")

----------------------------------------------------------------------------
(* The validation round of extract_knowledge_graph: three concepts, four to
   six proposed edges, and a reply that keeps, drops, downgrades or turns
   round each edge of the payload *)

ValidateCandidates ==
    <<Candidate(TRUE, "str", <<"A">>, 5), Candidate(TRUE, "str", <<"b">>, 4),
      Candidate(TRUE, "str", <<"c">>, 3)>>

\* A -> b -> c -> A is a directed cycle
ProposedEdges ==
    <<RawEdge(<<"A">>, <<"b">>, "prereq", <<>>),
      RawEdge(<<"b">>, <<"c">>, "prereq", <<>>),
      RawEdge(<<"c">>, <<"A">>, "causes", <<>>),
      RawEdge(<<"A">>, <<"c">>, "related", <<>>),
      RawEdge(<<"c">>, <<"b">>, "related", <<>>),
      RawEdge(<<"b">>, <<"A">>, "part_of", <<>>)>>

\* the proposed edges without at most two of them
ProposedLists ==
    {SelectSeq(ProposedEdges, LAMBDA e : e \notin left_out) :
        left_out \in {S \in SUBSET Range(ProposedEdges) : Cardinality(S) <= 2}}

InitValidate ==
    /\ kgpc = "extract"
    /\ CycleUnused
    /\ OracleUnused
    /\ StoreUnused
    /\ name_in = <<>>
    /\ name_key = <<>>
    /\ name_key2 = <<>>
    /\ SelectUnused
    /\ cands = ValidateCandidates
    /\ cands_out = [raised |-> FALSE, out |-> <<>>]
    /\ edges_raw \in ProposedLists
    /\ kept_names = <<>>
    /\ text = <<>>
    /\ max_edges = DefaultMaxEdges
    /\ edges1 = <<>>
    /\ ValidUnused

ExtractValidated == ExtractWith("revise")

NextValidate == ExtractValidated

SpecValidate == InitValidate /\ [][NextValidate]_vars

\* every edge joins two different names of the list and has an allowed type,
\* and no two edges have the same canonical key
WellFormed(es, names) ==
    /\ \A k \in 1..Len(es) :
         /\ es[k].src \in Range(names)
         /\ es[k].dst \in Range(names)
         /\ _normalize_name(es[k].src) # _normalize_name(es[k].dst)
         /\ es[k].typ \in ALLOWED_EDGE_TYPES
    /\ \A j \in 1..Len(es), k \in 1..Len(es) :
         j # k => BuiltKey(es[j]) # BuiltKey(es[k])

\* C29: the edges extract_knowledge_graph returns are the validated edges when
\* there are four or more of these, and the edges from before the validation
\* round otherwise; either way they are well formed and their prereq/causes
\* edges have no cycle.
C29_ValidatedIffFourEdges ==
    kgpc = "extracted" =>
        /\ pre_validation # <<>> /\ Len(validated_edges) >= ValidatedMinEdges
             => edges1 = validated_edges
        /\ pre_validation # <<>> /\ Len(validated_edges) < ValidatedMinEdges
             => edges1 = pre_validation
        /\ pre_validation = <<>> => edges1 = <<>>
        /\ WellFormed(edges1, kept_names)
        /\ ~HasCycle(DirectedArcs(edges1))

\* the reply downgrades an edge of a graph of five edges and drops none: the
\* validated edges are returned
C29_Witness ==
    /\ kgpc = "extracted"
    /\ Len(pre_validation) = 5
    /\ Len(validated_edges) = 5
    /\ validated_edges # pre_validation
    /\ edges1 = validated_edges

\* the reply turns an edge round and closes a cycle; three validated edges are
\* left and the edges from before the round are returned
C29_WitnessKept ==
    /\ kgpc = "extracted"
    /\ Len(pre_validation) = 4
    /\ Len(validate_reply) = 4
    /\ Len(validated_edges) = 3
    /\ edges1 = pre_validation

\* the guide_json of the extracted graph
ScenarioDocument ==
    [class_id |-> "c1", names |-> kept_names,
     edges |-> [k \in 1..Len(edges1) |->
                  Proposal(edges1[k].src, edges1[k].dst, edges1[k].typ)],
     oracle_edges |-> <<>>]

ScenarioUpload(p) ==
    /\ kgpc = "extracted"
    /\ StartUpload(p, ScenarioDocument)

NextScenario ==
    \/ ExtractKnowledgeGraph
    \/ \E p \in Procs :
         \/ ScenarioUpload(p)
         \/ LookupConcept(p)
         \/ WriteConcept(p)
         \/ InsertMention(p)
         \/ ConceptsDone(p)
         \/ LookupEdge(p)
         \/ WriteEdge(p)
         \/ EdgesDone(p)
         \/ LookupRelated(p)
         \/ WriteRelated(p)
         \/ RelatedDone(p)
         \/ Prune(p)
         \/ ScoreFetch(p)
         \/ ScoreOne(p)
         \/ ScoreDone(p)
         \/ FinishUpload(p)

SpecScenario == InitScenario /\ [][NextScenario]_vars

EdgesOfType(type) == {e \in concept_edges : e.type = type}

\* the first upload has run the Reinforcer and is about to prune
Reinforced(p) == uploads = 1 /\ up[p].pc = "prune"

\* C19 as stated: two concepts are kept and stored, there is one prereq edge
\* of weight 1, and the Reinforcer has added one pair of related edges of
\* weight 1.
C19_TwoConceptsOnePair ==
    \A p \in Procs :
        Reinforced(p) =>
            /\ Len(kept_names) = 2
            /\ Cardinality(concepts) = 2
            /\ Cardinality(EdgesOfType("prereq")) = 1
            /\ \A e \in EdgesOfType("prereq") : e.weight = 1
            /\ Cardinality(EdgesOfType("related")) = 2
            /\ \A e \in EdgesOfType("related") : e.weight = 1

\* C19: "Big-O Notation" and "big o notation" have different canonical keys
\* (the hyphen is kept), so three concepts are kept and stored; there is one
\* prereq edge Recursion -> Big-O Notation of weight 1; the Reinforcer has
\* added a related edge of weight 1 in each direction for each of the three
\* pairs; and the Pruner deletes these six edges before the upload ends.
C19_ThreeConceptsThreePairs ==
    \A p \in Procs :
        /\ Reinforced(p) =>
            /\ Len(kept_names) = 3
            /\ {c.canonical_name : c \in concepts}
                 = {BigONotation, big_o_notation, Recursion}
            /\ Cardinality(concepts) = 3
            /\ Cardinality(EdgesOfType("prereq")) = 1
            /\ \A e \in EdgesOfType("prereq") :
                 /\ e.weight = 1
                 /\ \E f \in concepts, t \in concepts :
                      /\ f.id = e.from_concept_id /\ f.canonical_name = Recursion
                      /\ t.id = e.to_concept_id /\ t.canonical_name = BigONotation
            /\ Cardinality(EdgesOfType("related")) = 6
            /\ \A e \in EdgesOfType("related") : e.weight = 1
            /\ \A a \in concepts, b \in concepts :
                 a.id # b.id =>
                   \E e \in EdgesOfType("related") :
                     e.from_concept_id = a.id /\ e.to_concept_id = b.id
            /\ concept_edges = EdgesOfType("prereq") \cup EdgesOfType("related")
        /\ (uploads = 1 /\ up[p].pc = "done") =>
            /\ up[p].status = "ok"
            /\ EdgesOfType("related") = {}
            /\ Cardinality(EdgesOfType("prereq")) = 1

\* the document's first upload has been reinforced: three concepts, one
\* prereq edge and six related edges are stored
C19_Witness ==
    \E p \in Procs :
        /\ Reinforced(p)
        /\ cands[1].name = BigONotation
        /\ cands[2].name = big_o_notation
        /\ Cardinality(concepts) = 3
        /\ Cardinality(EdgesOfType("related")) = 6
        /\ Cardinality(EdgesOfType("prereq")) = 1

----------------------------------------------------------------------------
(* Concept map: routers/class_graph.get_concept_map *)

\* "core" if imp > 0.8 else "important" if imp > 0.5 else "advanced"
node_importance(imp) ==
    IF imp > 8000 THEN "core" ELSE IF imp > 5000 THEN "important" ELSE "advanced"

\* the two selects and the response: the concepts of the class with
\* merged_into null, and every edge of the class
get_concept_map(class_id) ==
    [nodes |-> {[id |-> c.id, label |-> c.canonical_name,
                 importance |-> node_importance(c.importance_score)] :
                  c \in {r \in concepts :
                           r.class_id = class_id /\ r.merged_into = Null}},
     edges |-> {[from |-> e.from_concept_id, to |-> e.to_concept_id,
                 type |-> e.type,
                 weight |-> IF e.weight = 0 THEN 1 ELSE e.weight] :
                  e \in {r \in concept_edges : r.class_id = class_id}}]

----------------------------------------------------------------------------
(* Properties of the stored graph *)

AllIdle == \A p \in Procs : up[p].pc = "idle"

StoredDirectedArcs(class_id) ==
    {<<r.from_concept_id, r.to_concept_id>> :
        r \in {x \in concept_edges :
                 x.class_id = class_id /\ x.type \in DIRECTED_TYPES}}

\* C2: once the uploads have run, the stored prereq/causes edges of each
\* class form an acyclic directed graph over concept ids.
C2_StoredDirectedAcyclic ==
    AllIdle => \A c \in Classes : ~HasCycle(StoredDirectedArcs(c))

\* total weight of the related edges from one concept to another
RelatedWeight(rows, class_id, from_id, to_id) ==
    sum_weights({r \in rows :
                   /\ r.class_id = class_id
                   /\ r.type = "related"
                   /\ r.from_concept_id = from_id
                   /\ r.to_concept_id = to_id})

\* concepts of the class that existed before the upload and that the
\* document of the upload mentions
MentionedExisting(p) ==
    {c.id : c \in {x \in up[p].pre_concepts : x.class_id = up[p].class_id}}
    \cap Range(up[p].concept_ids)

\* C4: a complete upload of a document that mentions two concepts the class
\* already has leaves the related edge of each direction between them 1
\* heavier than it was before the upload.
C4_CooccurrenceAccumulates ==
    \A p \in Procs :
        (up[p].pc = "done" /\ up[p].status = "ok") =>
            \A a \in MentionedExisting(p), b \in MentionedExisting(p) :
                a # b =>
                    RelatedWeight(concept_edges, up[p].class_id, a, b)
                      = RelatedWeight(up[p].pre_edges, up[p].class_id, a, b) + 1

\* the concept step of request p: from the lookup result to the mention
ConceptWritten(p) == up[p].pc = "concept_write" /\ up'[p].pc = "mention"

SameKeyConcepts(class_id, name) ==
    {c \in concepts :
        /\ c.class_id = class_id
        /\ _normalize_name(c.canonical_name) = _normalize_name(name)}

\* C5: for each concept name of a document, if the class has a concept of
\* the same canonical key, no row is created and one such concept has its
\* document_frequency raised by 1; otherwise exactly one row is created, with
\* document_frequency 1 and importance_score 0.1.
C5_LookupOrCreate ==
    [][\A p \in Procs :
        ConceptWritten(p) =>
            LET name == strip(up[p].names[up[p].i])
                same == SameKeyConcepts(up[p].class_id, name)
                fresh == concepts' \ concepts
            IN  IF same # {}
                THEN /\ {c.id : c \in concepts'} = {c.id : c \in concepts}
                     /\ \E c \in same :
                          concepts' = (concepts \ {c}) \cup
                             {[c EXCEPT !.document_frequency = @ + 1]}
                ELSE /\ Cardinality(fresh) = 1
                     /\ \A c \in fresh :
                          /\ c.document_frequency = 1
                          /\ c.importance_score = 1000
                          /\ c.id \notin {x.id : x \in concepts}
                     /\ concepts \subseteq concepts'
      ]_vars

EdgeKey(r) == <<r.class_id, r.from_concept_id, r.to_concept_id, r.type>>

\* the key that request p is about to write, at either of its two upserts
PendingEdgeKey(p) ==
    IF up[p].pc = "edge_write"
    THEN <<up[p].class_id, EdgeFrom(p, up[p].edges[up[p].i]),
           EdgeTo(p, up[p].edges[up[p].i]), up[p].edges[up[p].i].type>>
    ELSE <<up[p].class_id, up[p].ops[up[p].i][1], up[p].ops[up[p].i][2], "related">>

EdgeWritten(p) ==
    /\ up[p].pc \in {"edge_write", "related_write"}
    /\ up'[p].pc \notin {"edge_write", "related_write"}

\* C6: the store never holds two edges of the same (class, from, to, type);
\* writing a proposal whose key exists adds 1 to that edge's weight and
\* inserts nothing, writing a new key inserts exactly one row of weight 1.
C6_OneEdgePerKey ==
    /\ [](\A r1 \in concept_edges, r2 \in concept_edges :
            EdgeKey(r1) = EdgeKey(r2) => r1 = r2)
    /\ [][\A p \in Procs :
            EdgeWritten(p) =>
                LET key == PendingEdgeKey(p)
                    hit == {r \in concept_edges : EdgeKey(r) = key}
                IN  IF hit # {}
                    THEN \E r \in hit :
                           concept_edges' = (concept_edges \ {r}) \cup
                              {[r EXCEPT !.weight = @ + 1]}
                    ELSE \E r \in concept_edges' :
                           /\ r.id \notin {x.id : x \in concept_edges}
                           /\ EdgeKey(r) = key
                           /\ r.weight = 1
                           /\ concept_edges' = concept_edges \cup {r}
         ]_vars

\* an edge proposed twice stands once in the store, with weight 2
C6_Witness ==
    /\ \E p \in Procs : up[p].pc = "edge" /\ up[p].i = 3
    /\ \E r \in concept_edges : r.type = "prereq" /\ r.weight = 2
    /\ Cardinality({r \in concept_edges : r.type = "prereq"}) = 1

C8_UniqueCanonicalKey ==
    merges = 0 =>
        \A c1 \in concepts, c2 \in concepts :
            (/\ c1.class_id = c2.class_id
             /\ c1.merged_into = Null
             /\ c2.merged_into = Null
             /\ _normalize_name(c1.canonical_name) = _normalize_name(c2.canonical_name))
                => c1 = c2

Pruned(p) == up[p].pc = "prune" /\ up'[p].pc = "score"

\* C9: the Pruner deletes exactly the edges of its class that have type
\* related and weight below 2; every other edge stays as it is.
C9_PruneExactlyWeakRelated ==
    [][\A p \in Procs :
        Pruned(p) =>
            /\ concept_edges' \subseteq concept_edges
            /\ \A r \in concept_edges :
                 r \notin concept_edges' <=>
                    (r.class_id = up[p].class_id /\ r.type = "related" /\ r.weight < 2)
      ]_vars

\* after a prune: the weak related edge b->a of the document is gone, the
\* related edge a->b of weight 2 and a causes edge of weight 1 are in place,
\* and so is the edge of the other class
C9_Witness ==
    \E p \in Procs :
        /\ up[p].pc = "score"
        /\ Len(up[p].concept_ids) = 2
        /\ LET a == up[p].concept_ids[1]
               b == up[p].concept_ids[2]
           IN  /\ a # b
               /\ RelatedWeight(concept_edges, up[p].class_id, a, b) = 2
               /\ RelatedWeight(concept_edges, up[p].class_id, b, a) = 0
               /\ \E r \in concept_edges :
                    /\ r.class_id = up[p].class_id
                    /\ r.type = "causes"
                    /\ r.weight = 1
        /\ \E r \in concept_edges : r.class_id # up[p].class_id

\* a merge request was accepted in this step
MergeAccepted == merges' = merges + 1

\* the rows of a table that point at the concept, as they read once moved
MovedTo(rows, keep_concept_id, merge_concept_id) ==
    {[r EXCEPT !.concept_id = keep_concept_id] :
       r \in {x \in rows : x.concept_id = merge_concept_id}}

\* C10: an accepted merge(keep, merge) sets merged_into of the merged concept
\* to keep and changes nothing else of any concept row (the merged row stays),
\* every alias row and every mention row of merge afterwards points at keep and
\* no other alias or mention row changes, and the edge rows are exactly what
\* they were, edges with merge as an endpoint included.
C10_MergeFrame ==
    [][MergeAccepted =>
        LET keep == last_merge'.keep
            merge == last_merge'.merge
        IN  /\ concepts' =
                 {IF c.id = merge THEN [c EXCEPT !.merged_into = keep] ELSE c :
                    c \in concepts}
            /\ \E c \in concepts' : c.id = merge /\ c.merged_into = keep
            /\ concept_aliases' =
                 {a \in concept_aliases : a.concept_id # merge}
                 \cup MovedTo(concept_aliases, keep, merge)
            /\ concept_doc_mentions' =
                 {m \in concept_doc_mentions : m.concept_id # merge}
                 \cup MovedTo(concept_doc_mentions, keep, merge)
            /\ \A a \in concept_aliases' : a.concept_id # merge
            /\ \A m \in concept_doc_mentions' : m.concept_id # merge
            /\ concept_edges' = concept_edges]_vars

\* a merge has moved an alias and a mention of the merged concept to the kept
\* one, and an edge still has the merged concept as an endpoint
C10_Witness ==
    /\ merges = 1
    /\ \E c \in concepts :
         /\ c.id = last_merge.merge
         /\ c.merged_into = last_merge.keep
         /\ \E a \in concept_aliases :
              a.concept_id = last_merge.keep /\ a.alias = c.canonical_name
         /\ \E m \in concept_doc_mentions :
              m.concept_id = last_merge.keep /\ m.mention_count = 1
         /\ \E e \in concept_edges :
              e.from_concept_id = c.id \/ e.to_concept_id = c.id

\* a merge request with keep = merge was answered in this step
MergeRejected == last_merge' # last_merge /\ last_merge'.keep = last_merge'.merge

\* C11: a merge request whose keep_concept_id equals its merge_concept_id is
\* rejected and changes no row of concepts, aliases, mentions or edges.
C11_SelfMergeRejected ==
    [][MergeRejected =>
         /\ merges' = merges
         /\ concepts' = concepts
         /\ concept_aliases' = concept_aliases
         /\ concept_doc_mentions' = concept_doc_mentions
         /\ concept_edges' = concept_edges]_vars

\* a self-merge of a concept that has mentions and an edge was answered, and
\* the concept is not merged
C11_Witness ==
    /\ last_merge.keep # Null
    /\ last_merge.keep = last_merge.merge
    /\ \E c \in concepts : c.id = last_merge.keep /\ c.merged_into = Null
    /\ \E m \in concept_doc_mentions : m.concept_id = last_merge.keep
    /\ \E e \in concept_edges : e.from_concept_id = last_merge.keep

\* the arcs concept -> merged_into
MergedIntoArcs ==
    {<<c.id, c.merged_into>> : c \in {x \in concepts : x.merged_into # Null}}

\* C12: whatever merges were accepted, following merged_into from a concept
\* ends at a concept that is not merged: merged_into has no cycle.
C12_MergedIntoAcyclic == ~HasCycle(MergedIntoArcs)

\* the concept rows an id refers to
ConceptsOf(id) == {c \in concepts : c.id = id}

EdgeEnds(e) == {e.from_concept_id, e.to_concept_id}

\* C13 as stated: both endpoints of every stored edge are non-merged concepts
\* of the edge's own class.
C13_EndpointsNotMerged ==
    \A e \in concept_edges : \A id \in EdgeEnds(e) :
        \E c \in ConceptsOf(id) :
            c.class_id = e.class_id /\ c.merged_into = Null

\* C13: both endpoints of every stored edge are concepts of the edge's own
\* class; an endpoint may be a merged concept, since a merge leaves the edges
\* of the merged concept as they are.
C13_EndpointsInClass ==
    \A e \in concept_edges : \A id \in EdgeEnds(e) :
        /\ ConceptsOf(id) # {}
        /\ \A c \in ConceptsOf(id) : c.class_id = e.class_id

\* after a merge an edge of the class still ends at the merged concept, and
\* the other class has edges of its own
C13_Witness ==
    /\ merges = 1
    /\ \E e \in concept_edges : \E c \in concepts :
         /\ c.id = e.to_concept_id
         /\ c.id = last_merge.merge
         /\ c.merged_into = last_merge.keep
         /\ c.class_id = e.class_id
    /\ \E e1 \in concept_edges, e2 \in concept_edges : e1.class_id # e2.class_id

\* C14: every merged concept points at an existing concept of its own class.
C14_MergeWithinClass ==
    \A c \in concepts :
        c.merged_into # Null =>
            \E k \in concepts : k.id = c.merged_into /\ k.class_id = c.class_id

\* an upload has ended after one of its oracle calls failed or returned text
\* that cannot be parsed
OracleFailed(p) == up[p].pc = "done" /\ up[p].oracle # "ok"

IdsOf(rows) == {r.id : r \in rows}

\* what the class held before the upload is still stored
StoredBeforeKept(p) ==
    /\ IdsOf(up[p].pre_concepts) \subseteq IdsOf(concepts)
    /\ IdsOf(up[p].pre_edges) \subseteq IdsOf(concept_edges)
    /\ IdsOf(up[p].pre_mentions) \subseteq IdsOf(concept_doc_mentions)

\* C20: an upload one of whose oracle calls failed or returned unparsable
\* text ends without an error outcome, having run its pipeline to the end
\* (update_class_graph did not raise), with every concept, edge and mention
\* stored before it still present.
C20_OracleFailureNotFatal ==
    \A p \in Procs :
        OracleFailed(p) =>
            /\ up[p].status \notin {"error", "failed"}
            /\ StoredBeforeKept(p)

\* an upload has ended after one of its store writes failed
WriteFailed(p) == up[p].pc = "done" /\ up[p].failed_at # ""

\* C21: when one store write of an upload's graph-mutation pass fails, the
\* rows the pass had already written stay in the store and the pass goes on:
\* it runs to the end of the scoring step instead of stopping at the failure.
C21_WriteFailureBestEffort ==
    \A p \in Procs :
        WriteFailed(p) =>
            /\ \A k \in 1..Len(up[p].concept_ids) :
                  up[p].concept_ids[k] \in IdsOf(concepts)
            /\ up[p].status = "ok"

\* both uploads of the document have been started and none is running
BothUploadsOver ==
    uploads = 2 /\ \A p \in Procs : up[p].pc \in {"idle", "done"}

ConceptsNamed(name) ==
    {c \in concepts : c.class_id = "c1" /\ c.canonical_name = name}

\* C22: two uploads to one class that mention the same concepts and propose
\* the same edge end, whatever the interleaving of their statements, with each
\* concept stored once with document_frequency 2 and the edge stored once
\* with weight 2, as when one upload runs after the other.
C22_NoLostUpdate ==
    BothUploadsOver =>
        /\ \A name \in {NameA, NameB} :
              /\ Cardinality(ConceptsNamed(name)) = 1
              /\ \A c \in ConceptsNamed(name) : c.document_frequency = 2
        /\ Cardinality(EdgesOfType("prereq")) = 1
        /\ \A e \in EdgesOfType("prereq") : e.weight = 2

MergedIds == {c.id : c \in {r \in concepts : r.merged_into # Null}}

\* C24: the concept map of a class holds no merged concept, neither among
\* its nodes nor as an endpoint of one of its edges: every returned edge joins
\* two returned nodes.
C24_NoMergedInConceptMap ==
    \A class_id \in Classes :
        LET map == get_concept_map(class_id)
            node_ids == {n.id : n \in map.nodes}
        IN  /\ node_ids \cap MergedIds = {}
            /\ \A e \in map.edges : e.from \in node_ids /\ e.to \in node_ids

----------------------------------------------------------------------------
(* Co-occurrence Reinforcer on a class of eight concepts: an upload that names
   seven or eight of them, one of them twice *)

ManyNames ==
    <<(<<"a">>), (<<"b">>), (<<"c">>), (<<"o">>), (<<"e">>), (<<"g">>), (<<"i">>), (<<"n">>)>>

\* rows that earlier uploads have left: related edges of weight 2 and more
\* outlive the Pruner
EarlierEdges ==
    {[id |-> 901, class_id |-> "c1", from_concept_id |-> 1, to_concept_id |-> 2,
      type |-> "related", weight |-> 2],
     [id |-> 902, class_id |-> "c1", from_concept_id |-> 2, to_concept_id |-> 1,
      type |-> "related", weight |-> 3],
     [id |-> 903, class_id |-> "c1", from_concept_id |-> 7, to_concept_id |-> 8,
      type |-> "related", weight |-> 2],
     [id |-> 904, class_id |-> "c1", from_concept_id |-> 1, to_concept_id |-> 2,
      type |-> "prereq", weight |-> 1]}

ManyDocuments ==
    {[class_id |-> "c1", names |-> n,
      edges |-> <<Proposal(ManyNames[1], ManyNames[2], "prereq")>>,
      oracle_edges |-> <<>>] :
        n \in {ManyNames, Take(ManyNames, 7),
               Take(ManyNames, 7) \o <<ManyNames[1]>>}}

InitReinforce ==
    /\ KGUnused
    /\ concepts = {ScoredConcept(k, ManyNames[k], 1) : k \in 1..Len(ManyNames)}
    /\ concept_edges \in SUBSET EarlierEdges
    /\ concept_doc_mentions = UNION {ScoredMentions(k, 1) : k \in 1..Len(ManyNames)}
    /\ concept_aliases = {}
    /\ up = [p \in OneRequest |-> IdleProc]
    /\ next_id = 2001
    /\ uploads = 0
    /\ merges = 0
    /\ last_merge = [keep |-> Null, merge |-> Null]

ReinforceUpload(p) ==
    /\ uploads = 0
    /\ \E d \in ManyDocuments : StartUpload(p, d)

NextReinforce ==
    \E p \in Procs :
        \/ ReinforceUpload(p)
        \/ LookupConcept(p)
        \/ WriteConcept(p)
        \/ InsertMention(p)
        \/ ConceptsDone(p)
        \/ LookupEdge(p)
        \/ WriteEdge(p)
        \/ EdgesDone(p)
        \/ LookupRelated(p)
        \/ WriteRelated(p)
        \/ RelatedDone(p)
        \/ Prune(p)
        \/ ScoreFetch(p)
        \/ ScoreOne(p)
        \/ ScoreDone(p)
        \/ FinishUpload(p)

SpecReinforce == InitReinforce /\ [][NextReinforce]_vars

\* the place of a concept id among the ids of the request without repeats
FirstAt(p, cid) ==
    CHOOSE i \in 1..Len(up[p].concept_ids) :
        /\ up[p].concept_ids[i] = cid
        /\ \A j \in 1..(i - 1) : up[p].concept_ids[j] # cid

LinkedIds(p) == Range(up[p].concept_ids) \ {Null}

IdPlace(p, cid) ==
    1 + Cardinality({x \in LinkedIds(p) : FirstAt(p, x) < FirstAt(p, cid)})

\* the place of the pair of the i-th and the j-th of n ids, i < j, among the
\* pairs in the order (1,2), (1,3), ..., (1,n), (2,3), ...
PairPlace(i, j, n) == ((i - 1) * (2 * n - i)) \div 2 + (j - i)

\* the pair of a and b is one of the first MaxRelatedPerUpload pairs
Reinforces(p, a, b) ==
    /\ a \in LinkedIds(p)
    /\ b \in LinkedIds(p)
    /\ a # b
    /\ PairPlace(Min2(IdPlace(p, a), IdPlace(p, b)),
                 Max2(IdPlace(p, a), IdPlace(p, b)),
                 Cardinality(LinkedIds(p))) <= MaxRelatedPerUpload

\* the Reinforcer of request p has ended and the Pruner has not begun
ReinforcerOver(p) == up[p].pc = "prune"

OtherThanRelated(rows) == {r \in rows : r.type # "related"}

\* C30: when the Reinforcer has ended, the related edge a -> b is 1 heavier
\* than before (or there with weight 1) for both directions of each of the
\* first 25 pairs of the ids of the document, taken without repeats, and as
\* it was for every other pair of concepts; while the Reinforcer runs no edge
\* of another type changes.
C30_ReinforcesFirstPairs ==
    /\ [](\A p \in Procs :
            ReinforcerOver(p) =>
                /\ \A a \in ConceptIds, b \in ConceptIds :
                     RelatedWeight(concept_edges, up[p].class_id, a, b)
                       = RelatedWeight(up[p].pre_edges, up[p].class_id, a, b)
                           + (IF Reinforces(p, a, b) THEN 1 ELSE 0)
                /\ \A r1 \in concept_edges, r2 \in concept_edges :
                     EdgeKey(r1) = EdgeKey(r2) => r1 = r2)
    /\ [][\A p \in Procs :
            up[p].pc \in {"related", "related_write"} =>
                OtherThanRelated(concept_edges') = OtherThanRelated(concept_edges)
         ]_vars

\* eight concepts, 28 pairs: the related edge 1 -> 2 went from 2 to 3, the
\* pair of the fifth and the eighth, the 25th, has its edges, and the edge
\* 7 -> 8 of a pair past the cap is as it was, without an edge 8 -> 7
C30_Witness ==
    \E p \in Procs :
        /\ ReinforcerOver(p)
        /\ Cardinality(LinkedIds(p)) = 8
        /\ RelatedWeight(up[p].pre_edges, "c1", 1, 2) = 2
        /\ RelatedWeight(concept_edges, "c1", 1, 2) = 3
        /\ RelatedWeight(concept_edges, "c1", 5, 8) = 1
        /\ RelatedWeight(concept_edges, "c1", 8, 5) = 1
        /\ RelatedWeight(concept_edges, "c1", 7, 8) = 2
        /\ RelatedWeight(concept_edges, "c1", 8, 7) = 0
====
